---- MODULE Spec2Model ----
(***************************************************************************)
(* Model of the persistence layer of the MasTec timesheet system           *)
(* (src/src/services/database.js): the DatabaseService singleton, the      *)
(* statements it sends to its store, and the audit logging it wraps around *)
(* insert / update / delete.                                               *)
(*                                                                         *)
(* The store behind this.client is the environment.  It is modelled as the *)
(* most general store that honours the statements the source sends it:     *)
(*   - the tables, keys and constraints are the ones of the DDL text in    *)
(*     createTables, with SQL semantics (a NULL is never equal to a NULL   *)
(*     in a UNIQUE key, a generated column cannot be written);             *)
(*   - foreign keys are declared but never switched on by the source (no   *)
(*     PRAGMA foreign_keys), so they are not enforced;                     *)
(*   - any single statement may fail for reasons of its own (I/O, network, *)
(*     a DDL statement the store rejects);                                 *)
(*   - the result object carries either the fields the source reads        *)
(*     (insertId, changes) or the fields the imported @libsql/client sets  *)
(*     (lastInsertRowid, rowsAffected): see resultFields.                  *)
(* Columns that no property below speaks about (names, descriptions,       *)
(* approval flags, timestamps, break_hours) are left out of the rows.      *)
(***************************************************************************)
EXTENDS Integers, FiniteSets, Sequences, TLC

(* ------------------------------ bounds -------------------------------- *)

\* number of state-changing service calls in one behaviour
MaxCalls == 3

\* callers that may be inside a call at the same time (SpecConc)
Callers == {1, 2}

(* --------------------------- value domains ---------------------------- *)

Null == "NULL"

Employees == {"EMP001", "EMP002"}
Dates == {"2024-01-15", "2024-01-16"}
Users == {"EMP010"}

\* the reference business units the model carries (dropdown-data.js
\* businessUnits), under the keys the data file gives them
BusinessUnitsData ==
  { [code |-> "220000", name |-> "HENKELS WEST CONTROLS", buType |-> "HENKELS"] }

\* the columns of business_units a statement may name
BuCols ==
  {"code", "name", "bu_type", "customer_num", "customer_name", "region",
   "division", "active"}

\* the columns of cost_codes a statement may name
CcCols == {"code", "description", "category", "rate", "billable", "active"}

\* the reference cost codes the model carries (dropdown-data.js costCodes)
CostCodesData ==
  { [code |-> "ELEC-WIRE", billable |-> 1],
    [code |-> "ADMIN", billable |-> 0] }

Tables == {"business_units", "cost_codes", "timesheet_entries", "audit_log"}

\* the indexes createTables creates, of which the model carries two
Indexes == {"idx_timesheet_employee_date", "idx_audit_table_record"}

\* the statements of createTables in the order it runs them: the tables,
\* then the indexes
SchemaOrder ==
  << "business_units", "cost_codes", "timesheet_entries", "audit_log",
     "idx_timesheet_employee_date", "idx_audit_table_record" >>

\* what exists once createTables has run every statement
Schema == Tables \cup Indexes

\* what a createTables that stops at a failing statement has created: the
\* objects of the statements before it
TablePrefixes ==
  { {SchemaOrder[i] : i \in 1 .. k} : k \in 0 .. (Len(SchemaOrder) - 1) }

UniqueCols ==
  {"employee_id", "date", "project_id", "job_id", "work_order_id", "work_type"}

TsInputCols ==
  {"employee_id", "date", "project_id", "job_id", "work_order_id",
   "work_type", "cost_code", "hours_worked", "billable_hours"}

TsTextNotNull == {"employee_id", "date", "project_id"}

(* ----------------------------- variables ------------------------------ *)

VARIABLES
  client,             \* "null" | "open" | "closed"   (this.client)
  isInitialized,      \* this.isInitialized
  tables,             \* tables and indexes that exist in the store
  resultFields,       \* field names of the store's result objects
  timesheet_entries,  \* rows of timesheet_entries
  tsSeq,              \* AUTOINCREMENT high-water mark of timesheet_entries
  cost_codes,         \* rows of cost_codes
  business_units,     \* rows of business_units
  audit_log,          \* rows of audit_log
  auditSeq,           \* AUTOINCREMENT high-water mark of audit_log
  calls,              \* number of calls made so far
  last,               \* the last completed call and what it returned
  proc                \* per caller: the call in progress (SpecConc)

vars ==
  << client, isInitialized, tables, resultFields, timesheet_entries, tsSeq,
     cost_codes, business_units, audit_log, auditSeq, calls, last, proc >>

storeVars ==
  << tables, timesheet_entries, tsSeq, cost_codes, business_units, audit_log, auditSeq >>

(* ------------------------------ helpers ------------------------------- *)

Min(a, b) == IF a < b THEN a ELSE b
Max(a, b) == IF a > b THEN a ELSE b

\* {...a, ...b}: the keys of both, b's value where both have the key
Spread(a, b) ==
  [c \in (DOMAIN a) \cup (DOMAIN b) |-> IF c \in DOMAIN b THEN b[c] ELSE a[c]]

\* x ? JSON.stringify(x) : null, the snapshot columns of audit_log
NullSnapshot == [isNull |-> TRUE]
JSONstringify(x) == [isNull |-> FALSE, text |-> x]

Idle == [pc |-> "idle"]
NoCall == [op |-> "none"]

(* ------------------- the store: statements and results ----------------- *)

\* execute(): the guard of line 299 and the call on this.client; envFails is
\* the store failing this statement for reasons of its own
Runs(isCreate, envFails) ==
  /\ isInitialized \/ isCreate
  /\ client = "open"
  /\ ~envFails

\* the object client.execute resolves to for a write that touched n rows and
\* whose last inserted rowid is rowid
WriteResult(n, rowid) ==
  IF resultFields = "changes"
    THEN [changes |-> n, insertId |-> rowid]
    ELSE [rowsAffected |-> n, lastInsertRowid |-> rowid]

\* result.insertId as a JavaScript condition (undefined and 0 are falsy)
InsertIdTruthy(result) == "insertId" \in DOMAIN result /\ result.insertId # 0

\* ChangesPositive with >= in place of >
ChangesNotNegative(result) == "changes" \in DOMAIN result /\ result.changes >= 0

\* result.changes > 0 (undefined > 0 is false)
ChangesPositive(result) == "changes" \in DOMAIN result /\ result.changes > 0

\* a column of the record handed to INSERT, after the column defaults
Col(data, c) ==
  IF c \in DOMAIN data THEN data[c]
  ELSE IF c = "work_type" THEN "REGULAR" ELSE Null

\* BillableHours without the billable = 1 filter of the subquery
BillableHoursAnyCode(cost_code, hours_worked, codes) ==
  IF \E cc \in codes : cc.code = cost_code THEN hours_worked ELSE 0

\* billable_hours GENERATED ALWAYS AS (CASE WHEN cost_code IN (SELECT code
\* FROM cost_codes WHERE billable = 1) THEN hours_worked ELSE 0 END) STORED
BillableHours(cost_code, hours_worked, codes) ==
  IF \E cc \in codes : cc.code = cost_code /\ cc.billable = 1
    THEN hours_worked ELSE 0

\* UNIQUE(employee_id, date, project_id, job_id, work_order_id, work_type):
\* two rows collide when every key column is equal, and NULL equals nothing
SameKey(r, s) == \A c \in UniqueCols : r[c] # Null /\ s[c] # Null /\ r[c] = s[c]

\* CHECK (hours_worked >= 0 AND hours_worked <= 24)
HoursCheck(h) == h >= 0 /\ h <= 24

\* the row INSERT INTO timesheet_entries stores for data under rowid id
NewTsRow(data, id) ==
  [ id            |-> id,
    employee_id   |-> Col(data, "employee_id"),
    date          |-> Col(data, "date"),
    project_id    |-> Col(data, "project_id"),
    job_id        |-> Col(data, "job_id"),
    work_order_id |-> Col(data, "work_order_id"),
    work_type     |-> Col(data, "work_type"),
    cost_code     |-> Col(data, "cost_code"),
    hours_worked  |-> data.hours_worked,
    billable_hours |-> BillableHours(Col(data, "cost_code"), data.hours_worked, cost_codes) ]

\* does the store accept INSERT INTO timesheet_entries (keys of data) ?
TsInsertAccepted(data) ==
  /\ "timesheet_entries" \in tables
  /\ DOMAIN data # {}
  /\ DOMAIN data \subseteq TsInputCols
  /\ "billable_hours" \notin DOMAIN data
  /\ \A c \in TsTextNotNull : c \in DOMAIN data /\ data[c] # Null
  /\ "hours_worked" \in DOMAIN data
  /\ HoursCheck(data.hours_worked)
  /\ \A r \in timesheet_entries : ~SameKey(r, NewTsRow(data, tsSeq + 1))

\* the row UPDATE timesheet_entries SET (keys of data) leaves in place of old
UpdatedTsRow(old, data) ==
  LET m == Spread(old, data) IN
    [m EXCEPT !.billable_hours = BillableHours(m.cost_code, m.hours_worked, cost_codes)]

\* does the store accept UPDATE timesheet_entries SET ... WHERE id = id ?
TsUpdateAccepted(id, data) ==
  /\ "timesheet_entries" \in tables
  /\ DOMAIN data # {}
  /\ DOMAIN data \subseteq TsInputCols
  /\ "billable_hours" \notin DOMAIN data
  /\ \A r \in timesheet_entries : r.id = id =>
       LET n == UpdatedTsRow(r, data) IN
         /\ \A c \in TsTextNotNull : n[c] # Null
         /\ HoursCheck(n.hours_worked)
         /\ \A o \in timesheet_entries : o.id # id => ~SameKey(o, n)

\* does the store accept INSERT INTO cost_codes (code, billable) ?
CcInsertAccepted(data) ==
  /\ "cost_codes" \in tables
  /\ DOMAIN data = {"code", "billable"}
  /\ \A cc \in cost_codes : cc.code # data.code

\* does the store accept INSERT INTO business_units (keys of data) ?
BuInsertAccepted(data) ==
  /\ "business_units" \in tables
  /\ DOMAIN data # {}
  /\ DOMAIN data \subseteq BuCols
  /\ {"code", "name", "bu_type"} \subseteq DOMAIN data
  /\ \A bu \in business_units : bu.code # data.code

\* SELECT * FROM table WHERE id = ? LIMIT 1, as result.rows
RowsById(table, id) ==
  IF table = "timesheet_entries" THEN {r \in timesheet_entries : r.id = id}
  ELSE IF table = "audit_log" THEN {r \in audit_log : r.id = id}
  ELSE {}

\* tables whose rows have an id column (cost_codes has code instead)
HasIdColumn(table) == table \in {"timesheet_entries", "audit_log"}

(* ----------------------------- getById --------------------------------- *)

\* getById: the row, or null when the statement failed or matched nothing
getById(table, id, envFails) ==
  IF Runs(FALSE, envFails) /\ table \in tables /\ HasIdColumn(table)
       /\ RowsById(table, id) # {}
    THEN JSONstringify(CHOOSE r \in RowsById(table, id) : TRUE)
    ELSE NullSnapshot

(* ----------------------------- logAudit -------------------------------- *)

\* the row logAudit hands to insertOrIgnore('audit_log', ...)
AuditData(tableName, recordId, action, oldValues, newValues, userId) ==
  [ id         |-> auditSeq + 1,
    table_name |-> tableName,
    record_id  |-> recordId,
    action     |-> action,
    old_values |-> oldValues,
    new_values |-> newValues,
    user_id    |-> userId ]

\* logAudit -> insertOrIgnore -> execute: appends the row unless the
\* statement fails
AuditAppends(envFails) == Runs(FALSE, envFails) /\ "audit_log" \in tables

\* what became of the audit record of a call: logAudit not reached, row
\* appended, or statement failed
AuditOutcome(reached, appends) ==
  IF ~reached THEN "none" ELSE IF appends THEN "written" ELSE "failed"

\* AfterLogAudit with the failure of the append passed on to the caller
AfterLogAuditRethrows(value, audit) == IF audit = "failed" THEN "threw" ELSE value

\* the catch blocks of insertOrIgnore (326-330) and logAudit (629-632): a
\* failed append is logged and the caller goes on to return its value
AfterLogAudit(value, audit) == value

(* ------------------- the catch of the write paths ---------------------- *)

\* Rethrown with a catch block that logs the error and returns false
RethrownSwallowed(accepted, value) == IF ~accepted THEN "false" ELSE value

\* insert, update, delete: a statement that fails lands in the catch block
\* (528-531, 559-562, 584-587), which logs and throws the error on;
\* otherwise the call returns its value
Rethrown(accepted, value) == IF ~accepted THEN "threw" ELSE value

(* --------------------- records the callers pass in --------------------- *)

\* a record with the columns every entry needs
BaseEntry(e, d, h) ==
  [employee_id |-> e, date |-> d, project_id |-> "P1", hours_worked |-> h]

\* the optional hierarchy slot: a job with its work order
Slot == ("job_id" :> "J1") @@ ("work_order_id" :> "WO1")

HoursValues == {5, 8}

\* well-formed timesheet records: without a slot (job_id and work_order_id
\* stay NULL), with one, with a work type, with a cost code
GoodEntries ==
  {BaseEntry(e, "2024-01-15", 8) : e \in Employees}
    \cup {BaseEntry("EMP001", "2024-01-15", h) @@ Slot : h \in HoursValues}
    \cup {BaseEntry("EMP001", "2024-01-15", 8) @@ Slot @@ ("work_type" :> "OVERTIME")}
    \cup {BaseEntry("EMP001", "2024-01-15", 8) @@ ("cost_code" :> c) :
            c \in {"ELEC-WIRE", "ADMIN"}}

\* records the store has a reason to refuse, or that try to set the
\* generated column
OddEntries ==
  { [employee_id |-> "EMP001", date |-> "2024-01-15", project_id |-> "P1",
     hours_worked |-> 25],
    [employee_id |-> "EMP001", date |-> "2024-01-15", hours_worked |-> 8],
    [employee_id |-> "EMP001", date |-> "2024-01-15", project_id |-> "P1",
     hours_worked |-> 8, cost_code |-> "ADMIN", billable_hours |-> 8] }

EntryInputs == GoodEntries \cup OddEntries

\* the patches update() is called with
Patches ==
  { [hours_worked |-> 5], [hours_worked |-> 25],
    [work_type |-> "OVERTIME"],
    [job_id |-> "J1", work_order_id |-> "WO1"],
    [cost_code |-> "ELEC-WIRE"],
    [billable_hours |-> 8] }

\* the tables the callers write to
WriteTables == {"timesheet_entries", "cost_codes"}

InsertInputs(table) ==
  IF table = "timesheet_entries" THEN EntryInputs ELSE CostCodesData

\* the ids callers pass: every id handed out so far and one that never was
Ids == 1 .. (tsSeq + 1)

(* --------------------------- initial state ----------------------------- *)

Init ==
  /\ client = "null"
  /\ isInitialized = FALSE
  /\ tables = {}
  /\ resultFields \in {"changes", "rowsAffected"}
  /\ timesheet_entries = {}
  /\ tsSeq = 0
  /\ cost_codes = {}
  /\ business_units = {}
  /\ audit_log = {}
  /\ auditSeq = 0
  /\ calls = 0
  /\ last = NoCall
  /\ proc = [c \in Callers |-> Idle]

(* ----------------------- initialize and close -------------------------- *)

\* rows seedInitialData adds to cost_codes: each insertOrIgnore goes through
\* execute, so it runs only if isInitialized is already true, may fail on its
\* own, and ignores a code that is already there
SeededCostCodes(kept) ==
  IF isInitialized
    THEN cost_codes \cup {cc \in kept : \A x \in cost_codes : x.code # cc.code}
    ELSE cost_codes

\* rows seedInitialData adds to business_units: as for cost_codes, and the
\* statement names the keys of the seed row as its columns
SeededBusinessUnits(kept) ==
  IF isInitialized
    THEN business_units \cup
           {bu \in kept : /\ DOMAIN bu \subseteq BuCols
                          /\ {"code", "name", "bu_type"} \subseteq DOMAIN bu
                          /\ \A x \in business_units : x.code # bu.code}
    ELSE business_units

\* the rows seedInitialData hands to insertOrIgnore, in its order
SeedRows ==
  << [table |-> "business_units",
      data  |-> [code |-> "220000", name |-> "HENKELS WEST CONTROLS",
                 buType |-> "HENKELS"]],
     [table |-> "cost_codes", data |-> [code |-> "ELEC-WIRE", billable |-> 1]],
     [table |-> "cost_codes", data |-> [code |-> "ADMIN", billable |-> 0]] >>

\* for each seed row, whether the store fails its statement on its own
SeedFailures == [1 .. Len(SeedRows) -> BOOLEAN]

\* the columns a statement on a table may name
ColumnsOf(table) ==
  IF table = "business_units" THEN BuCols
  ELSE IF table = "cost_codes" THEN CcCols
  ELSE {}

\* does INSERT OR IGNORE INTO table (keys of data) raise an error ?  (a key
\* that is already there is skipped without one)
InsertOrIgnoreErrs(table, data, envFails) ==
  ~ ( /\ Runs(FALSE, envFails)
      /\ table \in tables
      /\ DOMAIN data \subseteq ColumnsOf(table) )

\* InsertOrIgnoreThrows without the catch block of insertOrIgnore
InsertOrIgnoreUncaught(errs) == errs

\* does insertOrIgnore throw when its statement raised an error ?  the catch
\* block of lines 326-330 logs the error and returns false
InsertOrIgnoreThrows(errs) == FALSE

\* one run of the loops of seedInitialData: the rows attempted (all of them
\* unless an insertOrIgnore throws, which ends the try block), the rows
\* whose statement raised an error, and the tables afterwards
SeedRun(f) ==
  LET n == Len(SeedRows)
      errs(i) == InsertOrIgnoreErrs(SeedRows[i].table, SeedRows[i].data, f[i])
      thrown == {i \in 1 .. n : InsertOrIgnoreThrows(errs(i))}
      attempted == {i \in 1 .. n : \A j \in thrown : i <= j}
      kept(t) == {SeedRows[i].data :
                    i \in {j \in attempted : SeedRows[j].table = t /\ ~f[j]}}
  IN [ attempted      |-> attempted,
       failed         |-> {i \in attempted : errs(i)},
       storeFailed    |-> {i \in attempted : f[i]},
       cost_codes     |-> SeededCostCodes(kept("cost_codes")),
       business_units |-> SeededBusinessUnits(kept("business_units")) ]

\* how far one initialize() gets: createClient throws; createTables stops at
\* a failing CREATE TABLE or CREATE INDEX (the objects before it exist); or
\* every statement runs
InitOutcomes ==
  {[at |-> "createClient", created |-> {}]}
    \cup {[at |-> "createTables", created |-> p] : p \in TablePrefixes}
    \cup {[at |-> "done", created |-> Schema]}

\* initialize(): createClient, createTables (stops at the first failing
\* statement), seedInitialData (never throws), isInitialized = true
Initialize ==
  \E o \in InitOutcomes, f \in SeedFailures :
    LET run == SeedRun(f) IN
    /\ calls < MaxCalls
    /\ calls' = calls + 1
    /\ o.at # "done" => \A i \in DOMAIN f : ~f[i]
    /\ client' = IF o.at = "createClient" THEN client ELSE "open"
    /\ tables' = tables \cup o.created
    /\ isInitialized' = (isInitialized \/ o.at = "done")
    /\ cost_codes' = IF o.at = "done" THEN run.cost_codes ELSE cost_codes
    /\ business_units' = IF o.at = "done" THEN run.business_units ELSE business_units
    /\ last' = [op |-> "initialize",
                returned |-> IF o.at = "done" THEN "true" ELSE "threw",
                attempted |-> IF o.at = "done" THEN run.attempted ELSE {},
                failed |-> IF o.at = "done" THEN run.failed ELSE {}]
    /\ UNCHANGED << resultFields, timesheet_entries, tsSeq, audit_log, auditSeq, proc >>

\* seedInitialData() called on its own: the loops over the reference rows;
\* whatever is thrown inside is caught by its own catch block (286-289)
SeedInitialData ==
  \E f \in SeedFailures :
    LET run == SeedRun(f) IN
    /\ calls < MaxCalls
    /\ calls' = calls + 1
    /\ cost_codes' = run.cost_codes
    /\ business_units' = run.business_units
    /\ last' = [op |-> "seedInitialData", returned |-> "undefined",
                attempted |-> run.attempted, failed |-> run.failed,
                storeFailed |-> run.storeFailed]
    /\ UNCHANGED << client, isInitialized, tables, resultFields, timesheet_entries,
                    tsSeq, audit_log, auditSeq, proc >>

\* CreateErrs for a CREATE TABLE without IF NOT EXISTS
CreateErrsIfExists(object, envFails) == ~Runs(TRUE, envFails) \/ object \in tables

\* does CREATE TABLE / CREATE INDEX IF NOT EXISTS object raise an error ?  the
\* statement passes the guard of execute, and an object that is already
\* there is no error
CreateErrs(object, envFails) == ~Runs(TRUE, envFails)

\* createTables() called on its own: the statements in order, stopping at
\* the first that raises an error, which is thrown on (lines 219-232)
CreateTables ==
  \E failAt \in 0 .. Len(SchemaOrder) :
    LET errsAt == {i \in 1 .. Len(SchemaOrder) : CreateErrs(SchemaOrder[i], failAt = i)}
        created == {SchemaOrder[i] : i \in {j \in 1 .. Len(SchemaOrder) :
                                              \A e \in errsAt : j < e}}
    IN
    /\ calls < MaxCalls
    /\ calls' = calls + 1
    /\ tables' = tables \cup created
    /\ last' = [op |-> "createTables", storeFailed |-> (failAt # 0),
                returned |-> IF errsAt = {} THEN "undefined" ELSE "threw"]
    /\ UNCHANGED << client, isInitialized, resultFields, timesheet_entries, tsSeq,
                    cost_codes, business_units, audit_log, auditSeq, proc >>

\* close(): closes the client if there is one and clears isInitialized; a
\* failing close is swallowed and leaves the flag as it was
Close ==
  \E closeFails \in BOOLEAN :
    /\ calls < MaxCalls
    /\ calls' = calls + 1
    /\ IF client # "null" /\ ~closeFails
         THEN client' = "closed" /\ isInitialized' = FALSE
         ELSE UNCHANGED << client, isInitialized >>
    /\ last' = [op |-> "close", returned |-> "undefined"]
    /\ UNCHANGED << storeVars, resultFields, proc >>

(* ------------------------------ insert --------------------------------- *)

\* does the store accept INSERT INTO table (keys of data) VALUES (...) ?
InsertAccepted(table, data, envFails) ==
  /\ Runs(FALSE, envFails)
  /\ \/ table = "timesheet_entries" /\ TsInsertAccepted(data)
     \/ table = "cost_codes" /\ CcInsertAccepted(data)
     \/ table = "business_units" /\ BuInsertAccepted(data)

\* the rowid the store gives the inserted row
InsertRowid(table) ==
  IF table = "timesheet_entries" THEN tsSeq + 1
  ELSE IF table = "business_units" THEN Cardinality(business_units) + 1
  ELSE Cardinality(cost_codes) + 1

\* String(result.insertId || data.id)
InsertRecordId(result, data) ==
  IF InsertIdTruthy(result) THEN ToString(result.insertId)
  ELSE IF "id" \in DOMAIN data THEN ToString(data.id) ELSE "undefined"

\* insert(table, data, userId), lines 513-532, as one call
Insert(table, data, userId) ==
  \E stmtFails \in BOOLEAN, auditFails \in BOOLEAN :
    LET accepted == InsertAccepted(table, data, stmtFails)
        result   == WriteResult(1, InsertRowid(table))
        logs     == InsertIdTruthy(result) \/ ChangesPositive(result)
        appends  == accepted /\ logs /\ AuditAppends(auditFails)
    IN
    /\ calls < MaxCalls
    /\ calls' = calls + 1
    /\ IF accepted /\ table = "timesheet_entries"
         THEN /\ timesheet_entries' = timesheet_entries \cup {NewTsRow(data, tsSeq + 1)}
              /\ tsSeq' = tsSeq + 1
         ELSE UNCHANGED << timesheet_entries, tsSeq >>
    /\ IF accepted /\ table = "cost_codes"
         THEN cost_codes' = cost_codes \cup {data}
         ELSE UNCHANGED cost_codes
    /\ IF accepted /\ table = "business_units"
         THEN business_units' = business_units \cup {data}
         ELSE UNCHANGED business_units
    /\ IF appends
         THEN /\ audit_log' = audit_log \cup
                   { AuditData(table, InsertRecordId(result, data), "INSERT",
                               NullSnapshot, JSONstringify(data), userId) }
              /\ auditSeq' = auditSeq + 1
         ELSE UNCHANGED << audit_log, auditSeq >>
    /\ last' = [ op |-> "insert", table |-> table, data |-> data, userId |-> userId,
                 accepted |-> accepted,
                 audit |-> AuditOutcome(accepted /\ logs, appends),
                 returned |-> Rethrown(accepted,
                                AfterLogAudit(
                                  IF InsertIdTruthy(result) THEN "insertId"
                                  ELSE IF ChangesPositive(result) THEN "true" ELSE "false",
                                  AuditOutcome(accepted /\ logs, appends))) ]
    /\ UNCHANGED << client, isInitialized, tables, resultFields, proc >>

(* ------------------------------ update --------------------------------- *)

\* does the store accept UPDATE table SET ..., updated_at = ... WHERE id = ? ?
\* Of the tables with an id column only timesheet_entries has updated_at
UpdateAccepted(table, id, data, envFails) ==
  /\ Runs(FALSE, envFails)
  /\ table = "timesheet_entries"
  /\ TsUpdateAccepted(id, data)

\* {...oldRecord, ...data} of line 555
Merged(oldRecord, data) ==
  IF oldRecord.isNull THEN data ELSE Spread(oldRecord.text, data)

\* update(table, id, data, userId), lines 541-563, as one call
Update(table, id, data, userId) ==
  \E readFails \in BOOLEAN, stmtFails \in BOOLEAN, auditFails \in BOOLEAN :
    LET oldRecord == getById(table, id, readFails)
        accepted  == UpdateAccepted(table, id, data, stmtFails)
        matched   == {r \in timesheet_entries : r.id = id}
        result    == WriteResult(Cardinality(matched), tsSeq)
        logs      == ChangesPositive(result)
        appends   == accepted /\ logs /\ AuditAppends(auditFails)
    IN
    /\ calls < MaxCalls
    /\ calls' = calls + 1
    /\ IF accepted
         THEN timesheet_entries' =
                (timesheet_entries \ matched) \cup {UpdatedTsRow(r, data) : r \in matched}
         ELSE UNCHANGED timesheet_entries
    /\ IF appends
         THEN /\ audit_log' = audit_log \cup
                   { AuditData(table, ToString(id), "UPDATE", oldRecord,
                               JSONstringify(Merged(oldRecord, data)), userId) }
              /\ auditSeq' = auditSeq + 1
         ELSE UNCHANGED << audit_log, auditSeq >>
    /\ last' = [ op |-> "update", table |-> table, id |-> id, data |-> data,
                 userId |-> userId, accepted |-> accepted,
                 matched |-> IF accepted THEN Cardinality(matched) ELSE 0,
                 audit |-> AuditOutcome(accepted /\ logs, appends),
                 returned |-> Rethrown(accepted,
                                AfterLogAudit(IF logs THEN "true" ELSE "false",
                                              AuditOutcome(accepted /\ logs, appends))) ]
    /\ UNCHANGED << client, isInitialized, tables, resultFields, tsSeq, cost_codes,
                    business_units, proc >>

(* ------------------------------ delete --------------------------------- *)

\* does the store accept DELETE FROM table WHERE id = ? ? It does for every
\* table that exists and has an id column, audit_log included
DeleteAccepted(table, envFails) ==
  /\ Runs(FALSE, envFails)
  /\ HasIdColumn(table)
  /\ table \in tables

\* delete(table, id, userId), lines 571-588, as one call
Delete(table, id, userId) ==
  \E readFails \in BOOLEAN, stmtFails \in BOOLEAN, auditFails \in BOOLEAN :
    LET record   == getById(table, id, readFails)
        accepted == DeleteAccepted(table, stmtFails)
        matched  == RowsById(table, id)
        kept     == IF accepted /\ table = "audit_log"
                      THEN audit_log \ matched ELSE audit_log
        result   == WriteResult(Cardinality(matched), tsSeq)
        logs     == ChangesPositive(result)
        appends  == accepted /\ logs /\ AuditAppends(auditFails)
    IN
    /\ calls < MaxCalls
    /\ calls' = calls + 1
    /\ IF accepted /\ table = "timesheet_entries"
         THEN timesheet_entries' = timesheet_entries \ matched
         ELSE UNCHANGED timesheet_entries
    /\ IF appends
         THEN /\ audit_log' = kept \cup
                   { AuditData(table, ToString(id), "DELETE", record,
                               NullSnapshot, userId) }
              /\ auditSeq' = auditSeq + 1
         ELSE /\ audit_log' = kept
              /\ UNCHANGED auditSeq
    /\ last' = [ op |-> "delete", table |-> table, id |-> id, userId |-> userId,
                 accepted |-> accepted,
                 matched |-> IF accepted THEN Cardinality(matched) ELSE 0,
                 audit |-> AuditOutcome(accepted /\ logs, appends),
                 returned |-> Rethrown(accepted,
                                AfterLogAudit(IF logs THEN "true" ELSE "false",
                                              AuditOutcome(accepted /\ logs, appends))) ]
    /\ UNCHANGED << client, isInitialized, tables, resultFields, tsSeq, cost_codes,
                    business_units, proc >>

(* ------------------------ calculateDailyTotals ------------------------- *)

\* DailyRows that only counts the entries tagged REGULAR
DailyRowsRegularOnly(rows, employeeId, date) ==
  {r \in rows : r.employee_id = employeeId /\ r.date = date /\ r.work_type = "REGULAR"}

\* WHERE employee_id = ? AND date = ?
DailyRows(rows, employeeId, date) ==
  {r \in rows : r.employee_id = employeeId /\ r.date = date}

RECURSIVE SumOf(_, _)
\* SUM(col) over rows; parseFloat(NULL) || 0 makes the empty sum 0
SumOf(rows, col) ==
  IF rows = {} THEN 0
  ELSE LET r == CHOOSE x \in rows : TRUE IN r[col] + SumOf(rows \ {r}, col)

\* Math.min(totalHours, 8)
regularHours(totalHours) == Min(totalHours, 8)

\* overtimeHours without the lower clamp
overtimeHoursUnclamped(totalHours) == Min(totalHours - 8, 4)

\* Math.max(0, Math.min(totalHours - 8, 4))
overtimeHours(totalHours) == Max(0, Min(totalHours - 8, 4))

\* Math.max(0, totalHours - 12)
doubletimeHours(totalHours) == Max(0, totalHours - 12)

\* the record calculateDailyTotals returns when its query ran, over rows
DailyTotalsOf(rows, employeeId, date) ==
  LET day        == DailyRows(rows, employeeId, date)
      totalHours == SumOf(day, "hours_worked")
  IN [ total_hours      |-> totalHours,
       regular_hours    |-> regularHours(totalHours),
       overtime_hours   |-> overtimeHours(totalHours),
       doubletime_hours |-> doubletimeHours(totalHours),
       total_billable   |-> SumOf(day, "billable_hours"),
       entry_count      |-> Cardinality(day) ]

\* the record returned when the query failed (lines 483 and 503)
DefaultTotals == [total_hours |-> 0, total_billable |-> 0, entry_count |-> 0]

\* ReadResult with a catch block that throws the error on
ReadResultRethrows(ran, value, default) ==
  [threw |-> ~ran, result |-> IF ran THEN value ELSE default]

\* the try / catch of a read path: the value when the statement ran, and
\* when anything in the try block threw, the default of the catch block,
\* returned instead of throwing
ReadResult(ran, value, default) ==
  [threw |-> FALSE, result |-> IF ran THEN value ELSE default]

\* calculateDailyTotals(employeeId, date), lines 467-505
CalculateDailyTotals(employeeId, date) ==
  \E queryFails \in BOOLEAN :
    LET ran == Runs(FALSE, queryFails) /\ "timesheet_entries" \in tables IN
    /\ last' = [ op |-> "calculateDailyTotals", employeeId |-> employeeId,
                 date |-> date, ran |-> ran ]
                 @@ ReadResult(ran, DailyTotalsOf(timesheet_entries, employeeId, date),
                               DefaultTotals)
    /\ UNCHANGED << client, isInitialized, storeVars, resultFields, calls, proc >>

(* ------------------- statement texts and execute ----------------------- *)

\* A statement text is a sequence of pieces whose concatenation is the text,
\* cut so that an occurrence of the word CREATE is a piece of its own.

\* sql.includes(word)
Includes(sql, word) == \E i \in DOMAIN sql : sql[i] = word

\* execute, line 299: the statement is let through to the client
GuardPasses(sql) == isInitialized \/ Includes(sql, "CREATE")

\* execute, line 303: the statement is handed to a live client
Reaches(sql) == GuardPasses(sql) /\ client = "open"

\* the rows of a table as the model carries them
AllRows(table) ==
  IF table = "timesheet_entries" THEN timesheet_entries
  ELSE IF table = "cost_codes" THEN cost_codes
  ELSE IF table = "business_units" THEN business_units
  ELSE IF table = "audit_log" THEN audit_log
  ELSE {}

\* the columns of a table that the rows of the model carry
ModelCols(table) ==
  IF table = "timesheet_entries" THEN TsInputCols \cup {"id"}
  ELSE IF table = "cost_codes" THEN {"code", "billable"}
  ELSE IF table = "business_units" THEN {"code", "name", "bu_type"}
  ELSE IF table = "audit_log"
    THEN {"id", "table_name", "record_id", "action", "old_values", "new_values",
          "user_id"}
  ELSE {}

\* the column CREATED_AT, which every table but audit_log declares (as
\* created_at; SQL identifiers are case-insensitive)
CreatedAt == << "CREATE", "D_AT" >>

(* ------------------------------- getAll -------------------------------- *)

RECURSIVE Conditions(_, _)
\* keys.map(key => `${key} = ?`).join(' AND ')
Conditions(filters, keys) ==
  IF keys = {} THEN << >>
  ELSE LET k == CHOOSE x \in keys : TRUE
           rest == Conditions(filters, keys \ {k})
       IN << k, " = ?" >> \o (IF rest = << >> THEN << >> ELSE << " AND " >> \o rest)

\* the statement getAll builds (lines 341-364, without LIMIT and OFFSET)
GetAllSql(table, filters, orderBy) ==
  << "SELECT * FROM ", table >>
    \o (IF DOMAIN filters # {}
          THEN << " WHERE " >> \o Conditions(filters, DOMAIN filters) ELSE << >>)
    \o (IF orderBy # << >> THEN << " ORDER BY " >> \o orderBy ELSE << >>)

\* does the store run SELECT * FROM table WHERE ... ORDER BY ... ?
SelectAccepted(table, filters, orderBy) ==
  /\ table \in Tables
  /\ table \in tables
  /\ DOMAIN filters \subseteq ModelCols(table)
  /\ orderBy = CreatedAt => table # "audit_log"

\* the rows a SELECT with these filters returns
Filtered(rows, filters) ==
  {r \in rows : \A k \in DOMAIN filters : r[k] = filters[k]}

\* the tables, filters and orderings callers read with
ReadTables == Tables \cup {"no_such_table"}
ReadFilters == { << >>, [employee_id |-> "EMP001"], [no_such_column |-> "x"] }
ReadOrderings == { << >>, CreatedAt }

\* getAll(table, filters, options), lines 339-372
GetAll(table, filters, orderBy) ==
  \E queryFails \in BOOLEAN :
    LET sql == GetAllSql(table, filters, orderBy)
        ran == /\ Runs(Includes(sql, "CREATE"), queryFails)
               /\ SelectAccepted(table, filters, orderBy)
    IN
    /\ last' = [ op |-> "getAll", sql |-> sql, reached |-> Reaches(sql), ran |-> ran ]
                 @@ ReadResult(ran, Filtered(AllRows(table), filters), {})
    /\ UNCHANGED << client, isInitialized, storeVars, resultFields, calls, proc >>

(* -------------------------- getTimesheetEntries ------------------------ *)

\* the filters callers list entries with (the keys of lines 410-443 that the
\* model carries)
ListFilters ==
  { << >>, [employeeId |-> "EMP001"], [employeeId |-> "EMP001", date |-> "2024-01-15"] }

\* the WHERE clause of getTimesheetEntries: a filter that is given narrows
\* the listing to the entries equal in that column
ListedRows(filters) ==
  { r \in timesheet_entries :
      /\ "employeeId" \in DOMAIN filters => r.employee_id = filters.employeeId
      /\ "date" \in DOMAIN filters => r.date = filters.date }

\* getTimesheetEntries(filters, options), lines 379-460; the joined tables
\* are created before timesheet_entries
GetTimesheetEntries(filters) ==
  \E queryFails \in BOOLEAN :
    LET ran == Runs(FALSE, queryFails) /\ "timesheet_entries" \in tables IN
    /\ last' = [ op |-> "getTimesheetEntries", filters |-> filters, ran |-> ran ]
                 @@ ReadResult(ran, ListedRows(filters), {})
    /\ UNCHANGED << client, isInitialized, storeVars, resultFields, calls, proc >>

(* ------------------------ getById called directly ---------------------- *)

\* getById(table, id), lines 595-606, as a call of its own
GetByIdCall(table, id) ==
  \E queryFails \in BOOLEAN :
    LET ran == Runs(FALSE, queryFails) /\ table \in tables /\ HasIdColumn(table) IN
    /\ last' = [ op |-> "getById", table |-> table, id |-> id, ran |-> ran ]
                 @@ ReadResult(ran, getById(table, id, queryFails), NullSnapshot)
    /\ UNCHANGED << client, isInitialized, storeVars, resultFields, calls, proc >>

(* ------------------------ execute called directly ---------------------- *)

\* statements handed to execute: the probe of healthCheck (line 640), the
\* CREATE TABLE of audit_log, and a listing ordered by CREATED_AT
ExecStatements ==
  { << "SELECT 1 as health" >>,
    << "CREATE", " TABLE IF NOT EXISTS ", "audit_log", " (...)" >>,
    << "SELECT * FROM ", "timesheet_entries", " ORDER BY " >> \o CreatedAt }

\* the object a statement creates, Null if it creates none
Creates(sql) == IF sql[1] = "CREATE" THEN sql[3] ELSE Null

\* does the store run the statement ?
StatementAccepted(sql) ==
  \/ Creates(sql) # Null
  \/ Len(sql) = 1
  \/ Len(sql) > 1 /\ sql[2] \in tables

\* execute(sql, params), lines 297-311
Execute(sql) ==
  \E envFails \in BOOLEAN :
    LET ran == Runs(Includes(sql, "CREATE"), envFails) /\ StatementAccepted(sql) IN
    /\ tables' = IF ran /\ Creates(sql) # Null THEN tables \cup {Creates(sql)} ELSE tables
    /\ last' = [ op |-> "execute", sql |-> sql, reached |-> Reaches(sql), ran |-> ran,
                 threw |-> ~ran ]
    /\ UNCHANGED << client, isInitialized, resultFields, timesheet_entries, tsSeq,
                    cost_codes, business_units, audit_log, auditSeq, calls, proc >>

(* --------------------------- specification ----------------------------- *)

Next ==
  \/ Initialize
  \/ Close
  \/ \E t \in WriteTables, u \in Users : \E d \in InsertInputs(t) : Insert(t, d, u)
  \/ \E t \in WriteTables, i \in Ids, d \in Patches, u \in Users : Update(t, i, d, u)
  \/ \E t \in WriteTables, i \in Ids, u \in Users : Delete(t, i, u)

Spec == Init /\ [][Next]_vars

\* the ids getById is asked for
ReadIds == 1 .. 2

\* the entries stored for the reads to find
AccessEntries == {BaseEntry("EMP001", "2024-01-15", 8), BaseEntry("EMP002", "2024-01-15", 5)}

(* ------------- the write paths called with any table name ------------- *)

\* the tables the callers name: the entries and the audit trail itself
AuditTables == {"timesheet_entries", "audit_log"}

\* the ids the callers name, of entries and of audit records
AuditIds == 1 .. 2

NextAudit ==
  \/ Initialize
  \/ \E d \in AccessEntries, u \in Users : Insert("timesheet_entries", d, u)
  \/ \E t \in AuditTables, i \in AuditIds, d \in Patches, u \in Users :
       Update(t, i, d, u)
  \/ \E t \in AuditTables, i \in AuditIds, u \in Users : Delete(t, i, u)

SpecAudit == Init /\ [][NextAudit]_vars

(* ------------------ the read paths over stored entries ----------------- *)

\* entries of two employees on two days, tagged with either work type; no
\* slot, so that one day can hold several entries of one employee
DayEntries ==
  {BaseEntry("EMP001", "2024-01-15", h) @@ w :
      h \in HoursValues, w \in {<< >>, ("work_type" :> "OVERTIME")}}
    \cup {BaseEntry("EMP002", "2024-01-15", 8), BaseEntry("EMP001", "2024-01-16", 8)}

NextReads ==
  \/ Initialize
  \/ \E d \in DayEntries, u \in Users : Insert("timesheet_entries", d, u)
  \/ \E e \in Employees, d \in Dates : CalculateDailyTotals(e, d)

SpecReads == Init /\ [][NextReads]_vars

(* --------------- the read paths and execute in every state ------------- *)

NextAccess ==
  \/ Initialize
  \/ Close
  \/ \E d \in AccessEntries, u \in Users : Insert("timesheet_entries", d, u)
  \/ \E t \in ReadTables, f \in ReadFilters, o \in ReadOrderings : GetAll(t, f, o)
  \/ \E f \in ListFilters : GetTimesheetEntries(f)
  \/ \E t \in ReadTables, i \in ReadIds : GetByIdCall(t, i)
  \/ \E e \in Employees, d \in Dates : CalculateDailyTotals(e, d)
  \/ \E sql \in ExecStatements : Execute(sql)

SpecAccess == Init /\ [][NextAccess]_vars

(* ------------- insert() call by call, for concurrent callers ----------- *)

\* the entries two callers race to insert: one keyed with a slot, one without
RaceEntries ==
  { BaseEntry("EMP001", "2024-01-15", 8) @@ Slot,
    BaseEntry("EMP001", "2024-01-15", 8) }

\* the callers that are inside a call
InFlight == {c \in Callers : proc[c].pc \notin {"idle", "done"}}

\* a caller enters insert(table, data, userId) and builds its statement
BeginInsert(c, table, data, userId) ==
  /\ proc[c].pc \in {"idle", "done"}
  /\ calls < MaxCalls
  /\ calls' = calls + 1
  /\ proc' = [x \in Callers |->
                IF x = c
                  THEN [ pc |-> "execute", op |-> "insert", table |-> table,
                         data |-> data, userId |-> userId,
                         overlapped |-> InFlight # {} ]
                  ELSE IF x \in InFlight
                         THEN [proc[x] EXCEPT !.overlapped = TRUE]
                         ELSE proc[x]]
  /\ UNCHANGED << client, isInitialized, storeVars, resultFields, last >>

\* line 520: the store runs the INSERT, or the statement fails and insert throws
InsertExecute(c) ==
  \E stmtFails \in BOOLEAN :
    LET p        == proc[c]
        accepted == InsertAccepted(p.table, p.data, stmtFails)
        result   == WriteResult(1, InsertRowid(p.table))
        logs     == InsertIdTruthy(result) \/ ChangesPositive(result)
        value    == IF InsertIdTruthy(result) THEN "insertId"
                    ELSE IF ChangesPositive(result) THEN "true" ELSE "false"
    IN
    /\ p.pc = "execute"
    /\ p.op = "insert"
    /\ IF accepted /\ p.table = "timesheet_entries"
         THEN /\ timesheet_entries' = timesheet_entries \cup {NewTsRow(p.data, tsSeq + 1)}
              /\ tsSeq' = tsSeq + 1
         ELSE UNCHANGED << timesheet_entries, tsSeq >>
    /\ IF accepted /\ p.table = "cost_codes"
         THEN cost_codes' = cost_codes \cup {p.data}
         ELSE UNCHANGED cost_codes
    /\ IF accepted /\ p.table = "business_units"
         THEN business_units' = business_units \cup {p.data}
         ELSE UNCHANGED business_units
    /\ proc' = [proc EXCEPT ![c] =
                  IF ~accepted
                    THEN [p EXCEPT !.pc = "done"] @@
                           [returned |-> "threw", rowid |-> 0, ran |-> Runs(FALSE, stmtFails)]
                  ELSE IF logs
                    THEN [p EXCEPT !.pc = "logAudit"] @@
                           [returned |-> value, rowid |-> InsertRowid(p.table),
                            recordId |-> InsertRecordId(result, p.data),
                            ran |-> TRUE]
                  ELSE [p EXCEPT !.pc = "done"] @@
                         [returned |-> value, rowid |-> InsertRowid(p.table),
                          ran |-> TRUE]]
    /\ UNCHANGED << client, isInitialized, tables, resultFields, audit_log, auditSeq,
                    calls, last >>

\* line 524: logAudit appends the INSERT record, or fails and is swallowed;
\* then insert returns
InsertLogAudit(c) ==
  \E auditFails \in BOOLEAN :
    LET p       == proc[c]
        appends == AuditAppends(auditFails)
    IN
    /\ p.pc = "logAudit"
    /\ p.op = "insert"
    /\ IF appends
         THEN /\ audit_log' = audit_log \cup
                   { AuditData(p.table, p.recordId, "INSERT", NullSnapshot,
                               JSONstringify(p.data), p.userId) }
              /\ auditSeq' = auditSeq + 1
         ELSE UNCHANGED << audit_log, auditSeq >>
    /\ proc' = [proc EXCEPT ![c] =
                  [p EXCEPT !.pc = "done",
                            !.returned = AfterLogAudit(p.returned,
                                           AuditOutcome(TRUE, appends))]]
    /\ UNCHANGED << client, isInitialized, tables, resultFields, timesheet_entries,
                    tsSeq, cost_codes, business_units, calls, last >>

NextConc ==
  \/ Initialize
  \/ \E c \in Callers, d \in RaceEntries, u \in Users :
       BeginInsert(c, "timesheet_entries", d, u)
  \/ \E c \in Callers : InsertExecute(c)
  \/ \E c \in Callers : InsertLogAudit(c)

SpecConc == Init /\ [][NextConc]_vars

(* ------------------ update, step by step, two callers ------------------ *)

\* what two callers race to write into the row with id 1
RacePatches == { [hours_worked |-> 5], [work_type |-> "OVERTIME"] }

\* the row with this id as the store holds it now (null when there is none)
RowNow(table, id) ==
  IF RowsById(table, id) = {} THEN NullSnapshot
  ELSE JSONstringify(CHOOSE r \in RowsById(table, id) : TRUE)

\* a caller enters update(table, id, data, userId); each caller makes one call
BeginUpdate(c, table, id, data, userId) ==
  /\ proc[c].pc = "idle"
  /\ calls' = calls + 1
  /\ proc' = [x \in Callers |->
                IF x = c
                  THEN [ pc |-> "getById", op |-> "update", table |-> table,
                         id |-> id, data |-> data, userId |-> userId,
                         overlapped |-> InFlight # {} ]
                  ELSE IF x \in InFlight
                         THEN [proc[x] EXCEPT !.overlapped = TRUE]
                         ELSE proc[x]]
  /\ UNCHANGED << client, isInitialized, storeVars, resultFields, last >>

\* line 544: the pre-read of the row, null when its statement fails
UpdateGetById(c) ==
  \E readFails \in BOOLEAN :
    LET p == proc[c] IN
    /\ p.pc = "getById"
    /\ p.op = "update"
    /\ proc' = [proc EXCEPT ![c] =
                  [p EXCEPT !.pc = "execute"] @@
                    [ oldRecord |-> getById(p.table, p.id, readFails),
                      readRan   |-> Runs(FALSE, readFails) ]]
    /\ UNCHANGED << client, isInitialized, storeVars, resultFields, calls, last >>

\* lines 550-551: the store runs the UPDATE, or the statement fails and
\* update throws; before and after are the row around this write
UpdateExecute(c) ==
  \E stmtFails \in BOOLEAN :
    LET p        == proc[c]
        accepted == UpdateAccepted(p.table, p.id, p.data, stmtFails)
        matched  == {r \in timesheet_entries : r.id = p.id}
        result   == WriteResult(Cardinality(matched), tsSeq)
        logs     == ChangesPositive(result)
    IN
    /\ p.pc = "execute"
    /\ p.op = "update"
    /\ IF accepted
         THEN timesheet_entries' =
                (timesheet_entries \ matched) \cup {UpdatedTsRow(r, p.data) : r \in matched}
         ELSE UNCHANGED timesheet_entries
    /\ proc' = [proc EXCEPT ![c] =
                  [p EXCEPT !.pc = IF accepted /\ logs THEN "logAudit" ELSE "done"] @@
                    [ returned |-> Rethrown(accepted, IF logs THEN "true" ELSE "false"),
                      before   |-> RowNow(p.table, p.id),
                      after    |-> IF accepted /\ matched # {}
                                     THEN JSONstringify(
                                            UpdatedTsRow(CHOOSE r \in matched : TRUE, p.data))
                                     ELSE RowNow(p.table, p.id) ]]
    /\ UNCHANGED << client, isInitialized, tables, resultFields, tsSeq, cost_codes,
                    business_units, audit_log, auditSeq, calls, last >>

\* line 555: logAudit appends the UPDATE record, built from the pre-read, or
\* fails and is swallowed; then update returns
UpdateLogAudit(c) ==
  \E auditFails \in BOOLEAN :
    LET p       == proc[c]
        appends == AuditAppends(auditFails)
    IN
    /\ p.pc = "logAudit"
    /\ p.op = "update"
    /\ IF appends
         THEN /\ audit_log' = audit_log \cup
                   { AuditData(p.table, ToString(p.id), "UPDATE", p.oldRecord,
                               JSONstringify(Merged(p.oldRecord, p.data)), p.userId) }
              /\ auditSeq' = auditSeq + 1
         ELSE UNCHANGED << audit_log, auditSeq >>
    /\ proc' = [proc EXCEPT ![c] =
                  [p EXCEPT !.pc = "done",
                            !.returned = AfterLogAudit(p.returned,
                                           AuditOutcome(TRUE, appends))]]
    /\ UNCHANGED << client, isInitialized, tables, resultFields, timesheet_entries,
                    tsSeq, cost_codes, business_units, calls, last >>

\* the store is set up while no update is in flight, so that the calls that
\* interleave are the updates
NextUpdates ==
  \/ InFlight = {} /\ Initialize
  \/ \E d \in AccessEntries, u \in Users :
       InFlight = {} /\ Insert("timesheet_entries", d, u)
  \/ \E c \in Callers, d \in RacePatches, u \in Users :
       BeginUpdate(c, "timesheet_entries", 1, d, u)
  \/ \E c \in Callers : UpdateGetById(c)
  \/ \E c \in Callers : UpdateExecute(c)
  \/ \E c \in Callers : UpdateLogAudit(c)

SpecUpdates == Init /\ [][NextUpdates]_vars

(* ----------------- schema creation and reference seeding --------------- *)

\* reference rows a caller inserts under the column names of the schema:
\* the seeded business unit, another one, and a cost code that seeding
\* carries with another billable flag
ReferenceInputs ==
  { [table |-> "business_units",
     data  |-> [code |-> "220000", name |-> "HENKELS WEST CONTROLS",
                bu_type |-> "HENKELS"]],
    [table |-> "cost_codes", data |-> [code |-> "ADMIN", billable |-> 1]],
    [table |-> "cost_codes", data |-> [code |-> "ELEC-WIRE", billable |-> 1]] }

NextSchema ==
  \/ Initialize
  \/ Close
  \/ CreateTables
  \/ SeedInitialData
  \/ \E r \in ReferenceInputs, u \in Users : Insert(r.table, r.data, u)

SpecSchema == Init /\ [][NextSchema]_vars

(* ====================================================================== *)
(* The validation engine (src/src/services/validation.js).                *)
(*                                                                        *)
(* JavaScript values are records tagged with their kind.  A number is an  *)
(* exact decimal counted in thousandths (8.3 is 8300), so that rounding   *)
(* to two decimals has something to round; NaN is a kind of its own whose *)
(* typeof is "number".  A string is the sequence of its characters.       *)
(* ====================================================================== *)

Undefined == [t |-> "undefined"]
JsNull == [t |-> "null"]
NaN == [t |-> "NaN"]
Num(n) == [t |-> "number", n |-> n]
Str(s) == [t |-> "string", s |-> s]
Bool(b) == [t |-> "boolean", b |-> b]

\* typeof v
TypeOf(v) == IF v.t = "NaN" THEN "number" ELSE IF v.t = "null" THEN "object" ELSE v.t

\* !v
Falsy(v) ==
  \/ v.t \in {"undefined", "null", "NaN"}
  \/ v.t = "number" /\ v.n = 0
  \/ v.t = "string" /\ v.s = << >>
  \/ v.t = "boolean" /\ ~v.b

\* a || b
OrElse(a, b) == IF Falsy(a) THEN b ELSE a

(* ------------------------------ strings -------------------------------- *)

DigitValue ==
  [c \in {"0", "1", "2", "3", "4", "5", "6", "7", "8", "9"} |->
     CASE c = "0" -> 0 [] c = "1" -> 1 [] c = "2" -> 2 [] c = "3" -> 3 [] c = "4" -> 4
       [] c = "5" -> 5 [] c = "6" -> 6 [] c = "7" -> 7 [] c = "8" -> 8 [] c = "9" -> 9]

IsDigit(c) == c \in DOMAIN DigitValue

IsSpace(c) == c = " "

RECURSIVE TrimStart(_)
TrimStart(s) ==
  IF s # << >> /\ IsSpace(Head(s)) THEN TrimStart(Tail(s)) ELSE s

RECURSIVE TrimEnd(_)
TrimEnd(s) ==
  IF s # << >> /\ IsSpace(s[Len(s)]) THEN TrimEnd(SubSeq(s, 1, Len(s) - 1)) ELSE s

\* s.trim()
Trim(s) == TrimEnd(TrimStart(s))

RECURSIVE TakeDigits(_)
\* the longest run of digits s starts with
TakeDigits(s) ==
  IF s # << >> /\ IsDigit(Head(s)) THEN << Head(s) >> \o TakeDigits(Tail(s)) ELSE << >>

RECURSIVE DigitsValue(_)
\* the number a run of digits writes
DigitsValue(ds) ==
  IF ds = << >> THEN 0 ELSE DigitsValue(SubSeq(ds, 1, Len(ds) - 1)) * 10 + DigitValue[ds[Len(ds)]]

\* the thousandths a run of fraction digits writes (digits after the third
\* are below the unit of the model)
FractionValue(ds) ==
  LET d(i) == IF i <= Len(ds) THEN DigitValue[ds[i]] ELSE 0
  IN d(1) * 100 + d(2) * 10 + d(3)

\* parseFloat(s): leading white space, an optional sign, digits, an optional
\* point and digits; what follows is ignored; NaN when there is no digit
\* (exponents and the word Infinity are not among the inputs)
ParseFloat(s) ==
  LET Value(neg, ints, frac) ==
        IF ints = << >> /\ frac = << >> THEN NaN
        ELSE Num((IF neg THEN 0 - 1 ELSE 1)
                   * (DigitsValue(ints) * 1000 + FractionValue(frac)))
      Fraction(v) ==
        IF v # << >> /\ Head(v) = "." THEN TakeDigits(Tail(v)) ELSE << >>
      Digits(neg, u, ints) ==
        Value(neg, ints, Fraction(SubSeq(u, Len(ints) + 1, Len(u))))
      Unsigned(neg, u) == Digits(neg, u, TakeDigits(u))
      Signed(t) ==
        Unsigned(t # << >> /\ Head(t) = "-",
                 IF t # << >> /\ Head(t) \in {"-", "+"} THEN Tail(t) ELSE t)
  IN Signed(TrimStart(s))

\* list.includes(m)
Has(list, m) == \E i \in DOMAIN list : list[i] = m

RECURSIVE Dedupe(_)
\* [...new Set(list)]: the members of the list in the order they first occur
Dedupe(list) ==
  IF list = << >> THEN << >>
  ELSE LET init == Dedupe(SubSeq(list, 1, Len(list) - 1)) IN
       IF Has(init, list[Len(list)]) THEN init ELSE Append(init, list[Len(list)])

RECURSIVE Flatten(_)
\* the lists of a list pushed one after the other onto one list
Flatten(lists) ==
  IF lists = << >> THEN << >> ELSE Head(lists) \o Flatten(Tail(lists))

\* the result of a validator
Verdict(errors, warnings, sanitized) ==
  [ isValid |-> errors = << >>, errors |-> errors, warnings |-> warnings,
    sanitized |-> sanitized ]

\* a list with the message if the condition holds, empty otherwise
When(cond, message) == IF cond THEN << message >> ELSE << >>

\* Round2 that cuts the third decimal off
Round2Floor(n) == (n \div 10) * 10

\* Math.round(x * 100) / 100 on thousandths: to the nearest hundredth, a
\* half goes up
Round2(n) == ((n + 5) \div 10) * 10

(* ---------------------------- validateHours ---------------------------- *)

\* validateHours(hours), lines 381-423
validateHours(hours) ==
  LET Rounded(sanitized) ==
        Verdict(When(sanitized < 0, "Hours cannot be negative")
                  \o When(sanitized > 24000, "Hours cannot exceed 24 per day"),
                When(sanitized > 16000, "Unusually high hours - please verify")
                  \o When(sanitized % 250 # 0,
                          "Hours should be in 15-minute increments (0.25)"),
                Num(sanitized))
      Parsed(parsed) ==
        IF TypeOf(parsed) # "number" \/ parsed.t = "NaN"
          THEN Verdict(<< "Hours must be a valid number" >>, << >>, Num(0))
          ELSE Rounded(Round2(parsed.n))
  IN Parsed(IF hours.t = "string" THEN ParseFloat(Trim(hours.s)) ELSE hours)

(* -------------------------- validateBreakHours ------------------------- *)

\* validateBreakHours with the check on negative values left out
validateBreakHoursNoNegative(breakHours) ==
  LET Rounded(sanitized) ==
        Verdict(When(sanitized > 4000, "Break hours cannot exceed 4 hours per day"),
                << >>, Num(sanitized))
      Parsed(parsed) ==
        Rounded(Round2(IF TypeOf(parsed) # "number" \/ parsed.t = "NaN"
                         THEN 0 ELSE parsed.n))
  IN Parsed(IF breakHours.t = "string"
              THEN OrElse(ParseFloat(Trim(breakHours.s)), Num(0))
              ELSE OrElse(breakHours, Num(0)))

\* validateBreakHours(breakHours), lines 429-460
validateBreakHours(breakHours) ==
  LET Rounded(sanitized) ==
        Verdict(When(sanitized < 0, "Break hours cannot be negative")
                  \o When(sanitized > 4000, "Break hours cannot exceed 4 hours per day"),
                << >>, Num(sanitized))
      Parsed(parsed) ==
        Rounded(Round2(IF TypeOf(parsed) # "number" \/ parsed.t = "NaN"
                         THEN 0 ELSE parsed.n))
  IN Parsed(IF breakHours.t = "string"
              THEN OrElse(ParseFloat(Trim(breakHours.s)), Num(0))
              ELSE OrElse(breakHours, Num(0)))

(* --------------------- the reference data it looks up ------------------ *)

\* ids of the employees, business units, projects, cost codes and work
\* types of dropdown-data.js that the model carries, as character sequences
EmployeeIds == { << "E", "M", "P", "0", "0", "1" >>, << "E", "M", "P", "0", "0", "2" >> }

BusinessUnitCodes == { << "2", "2", "0", "0", "0", "0" >> }

\* the project 22009017, Active, from 2024-01-01 to 2024-12-31
ProjectDetails ==
  { [ id |-> << "2", "2", "0", "0", "9", "0", "1", "7" >>, status |-> "Active",
      startDate |-> << "2", "0", "2", "4", "-", "0", "1", "-", "0", "1" >>,
      endDate   |-> << "2", "0", "2", "4", "-", "1", "2", "-", "3", "1" >> ] }

\* getProjectDetails(projectId): the projects with that id (none or one)
getProjectDetails(projectId) ==
  IF projectId.t = "string" THEN {pr \in ProjectDetails : pr.id = projectId.s} ELSE {}

CostCodeIds ==
  { << "E", "L", "E", "C", "-", "W", "I", "R", "E" >>, << "A", "D", "M", "I", "N" >> }

WorkTypeIds ==
  { << "R", "E", "G", "U", "L", "A", "R" >>,
    << "O", "V", "E", "R", "T", "I", "M", "E" >>,
    << "D", "O", "U", "B", "L", "E", "T", "I", "M", "E" >>,
    << "H", "O", "L", "I", "D", "A", "Y" >>,
    << "S", "I", "C", "K" >>,
    << "V", "A", "C", "A", "T", "I", "O", "N" >>,
    << "P", "E", "R", "S", "O", "N", "A", "L" >> }

\* isValidEmployee, isValidBusinessUnit, isValidProject, isValidCostCode,
\* isValidWorkType: every carried employee and business unit is active
isValidEmployee(id) == id.t = "string" /\ id.s \in EmployeeIds
isValidBusinessUnit(code) == code.t = "string" /\ code.s \in BusinessUnitCodes
isValidProject(id) ==
  id.t = "string" /\ \E pr \in ProjectDetails : pr.id = id.s /\ pr.status = "Active"
isValidCostCode(code) == code.t = "string" /\ code.s \in CostCodeIds
isValidWorkType(id) == id.t = "string" /\ id.s \in WorkTypeIds

(* --------------------------- more of strings --------------------------- *)

LowerCase ==
  << "a", "b", "c", "d", "e", "f", "g", "h", "i", "j", "k", "l", "m",
     "n", "o", "p", "q", "r", "s", "t", "u", "v", "w", "x", "y", "z" >>
UpperCase ==
  << "A", "B", "C", "D", "E", "F", "G", "H", "I", "J", "K", "L", "M",
     "N", "O", "P", "Q", "R", "S", "T", "U", "V", "W", "X", "Y", "Z" >>

\* s.toUpperCase()
ToUpperCase(s) ==
  [ i \in DOMAIN s |->
      IF \E k \in DOMAIN LowerCase : LowerCase[k] = s[i]
        THEN UpperCase[CHOOSE k \in DOMAIN LowerCase : LowerCase[k] = s[i]]
        ELSE s[i] ]

\* every character from position i on is a digit
DigitsFrom(s, i) == \A k \in i .. Len(s) : IsDigit(s[k])

(* ------------------------- the field validators ------------------------ *)

\* validateEmployeeId, lines 151-180
validateEmployeeId(employeeId) ==
  IF TypeOf(employeeId) # "string"
    THEN Verdict(<< "Employee ID must be a string" >>, << >>, employeeId)
    ELSE
      LET sanitized == ToUpperCase(Trim(employeeId.s)) IN
      Verdict(
        When(~ ( /\ Len(sanitized) >= 6
                 /\ SubSeq(sanitized, 1, 3) = << "E", "M", "P" >>
                 /\ DigitsFrom(sanitized, 4) ),
             "Employee ID must be in format EMP### (e.g., EMP001)")
          \o When(~isValidEmployee(Str(sanitized)), "Employee ID not found in system"),
        << >>, Str(sanitized))

\* validateBusinessUnitCode, lines 260-285
validateBusinessUnitCode(code) ==
  IF TypeOf(code) # "string"
    THEN Verdict(<< "Business unit code must be a string" >>, << >>, code)
    ELSE
      LET sanitized == Trim(code.s) IN
      Verdict(
        When(~(Len(sanitized) = 6 /\ DigitsFrom(sanitized, 1)),
             "Business unit code must be 6 digits (e.g., 220000)")
          \o When(~isValidBusinessUnit(Str(sanitized)),
                  "Business unit code not found in system"),
        << >>, Str(sanitized))

\* validateProjectId, lines 290-315
validateProjectId(projectId) ==
  IF TypeOf(projectId) # "string"
    THEN Verdict(<< "Project ID must be a string" >>, << >>, projectId)
    ELSE
      LET sanitized == Trim(projectId.s) IN
      Verdict(
        When(~(Len(sanitized) = 8 /\ DigitsFrom(sanitized, 1)),
             "Project ID must be 8 digits (e.g., 22009017)")
          \o When(~isValidProject(Str(sanitized)), "Project ID not found or inactive"),
        << >>, Str(sanitized))

\* validateWorkType, lines 466-483
validateWorkType(workType) ==
  LET initial == OrElse(workType, Str(<< "R", "E", "G", "U", "L", "A", "R" >>))
      sanitized == IF TypeOf(workType) = "string"
                     THEN Str(ToUpperCase(Trim(workType.s))) ELSE initial
  IN Verdict(When(~isValidWorkType(sanitized), "Invalid work type"), << >>, sanitized)

\* validateCostCode, lines 489-510
validateCostCode(costCode) ==
  IF Falsy(costCode) THEN Verdict(<< >>, << >>, JsNull)
  ELSE
    LET sanitized == IF TypeOf(costCode) = "string"
                       THEN Str(ToUpperCase(Trim(costCode.s))) ELSE costCode
    IN Verdict(When(~isValidCostCode(sanitized), "Cost code not found in system"),
               << >>, sanitized)

\* validateDescription, lines 516-542, for a value it does not throw on
validateDescription(description) ==
  LET initial == OrElse(description, Str(<< >>))
      trimmed == IF TypeOf(description) = "string" THEN Trim(description.s) ELSE initial.s
  IN Verdict(When(Len(trimmed) > 500, "Description cannot exceed 500 characters"),
             When(Len(trimmed) = 0, "Description is empty - consider adding details"),
             Str(SelectSeq(trimmed, LAMBDA c : c \notin {"<", ">"})))

\* validateDescription throws: a truthy value that is not a string has no
\* replace method (line 533)
DescriptionThrows(description) == TypeOf(description) # "string" /\ ~Falsy(description)

(* -------------------------------- dates -------------------------------- *)

\* days from 1970-01-01 to the day d of month m of year y of the Gregorian
\* calendar; a day past the end of its month counts on into the next one
DaysFromCivil(y, m, d) ==
  LET yy  == IF m <= 2 THEN y - 1 ELSE y
      era == yy \div 400
      yoe == yy - era * 400
      mp  == IF m > 2 THEN m - 3 ELSE m + 9
      doy == (153 * mp + 2) \div 5 + d - 1
      doe == yoe * 365 + yoe \div 4 - yoe \div 100 + doy
  IN era * 146097 + doe - 719468

\* a Date: an instant in whole hours from the epoch, frac telling that it
\* lies after that hour and before the next one, or the invalid Date
Instant(h, frac) == [valid |-> TRUE, h |-> h, frac |-> frac]
InvalidDate == [valid |-> FALSE, h |-> 0, frac |-> FALSE]

\* a <= b on Dates
BeforeOrAt(a, b) ==
  /\ a.valid /\ b.valid
  /\ a.h <= b.h

\* a < b on Dates (false when either is invalid); no two Dates the model
\* compares lie both inside the same hour
Before(a, b) ==
  /\ a.valid /\ b.valid
  /\ a.h < b.h \/ (a.h = b.h /\ ~a.frac /\ b.frac)

\* /^\d{4}-\d{2}-\d{2}$/.test(s)
IsDateFormat(s) ==
  /\ Len(s) = 10
  /\ s[5] = "-" /\ s[8] = "-"
  /\ \A i \in {1, 2, 3, 4, 6, 7, 9, 10} : IsDigit(s[i])

\* new Date(v): a date-only string is midnight UTC of that day and invalid
\* when its month is not 1..12 or its day not 1..31; a string of another
\* shape is invalid (the inputs hold none that an engine reads as a date in
\* another notation); a number is that many milliseconds from the epoch (the
\* numbers among the inputs are less than an hour), true is one millisecond
NewDate(v) ==
  CASE v.t = "string" ->
         IF ~IsDateFormat(v.s) THEN InvalidDate
         ELSE LET y == DigitsValue(SubSeq(v.s, 1, 4))
                  m == DigitsValue(SubSeq(v.s, 6, 7))
                  d == DigitsValue(SubSeq(v.s, 9, 10))
              IN IF m \in 1 .. 12 /\ d \in 1 .. 31
                   THEN Instant(DaysFromCivil(y, m, d) * 24, FALSE)
                   ELSE InvalidDate
    [] v.t = "number"  -> Instant(IF v.n < 0 THEN 0 - 1 ELSE 0, v.n # 0)
    [] v.t = "boolean" -> Instant(0, v.b)
    [] v.t = "null"    -> Instant(0, FALSE)
    [] OTHER           -> InvalidDate

\* the clock now: the local date y-m-d and hour h of a zone off hours ahead
\* of UTC, frac telling that the hour has begun

\* new Date() with setFullYear(getFullYear() - 1): the same local day and
\* time a year before
OneYearAgo(now) ==
  Instant(DaysFromCivil(now.y - 1, now.m, now.d) * 24 + now.h - now.off, now.frac)

\* new Date() with setDate(getDate() + 30): the same local time 30 days on
ThirtyDaysFromNow(now) ==
  Instant((DaysFromCivil(now.y, now.m, now.d) + 30) * 24 + now.h - now.off, now.frac)

\* dateObj.getDay(): the day of the week of the local day the instant falls
\* on, 0 for Sunday (1970-01-01 was a Thursday)
GetDay(date, now) == (((date.h + now.off) \div 24) + 4) % 7

\* validateDate, lines 321-375, run when the clock shows now (its three
\* readings of the clock give the same instant)
validateDate(date, now) ==
  IF TypeOf(date) # "string"
    THEN Verdict(<< "Date must be a string" >>, << >>, date)
  ELSE
    LET sanitized == Trim(date.s)
        dateObj   == NewDate(Str(sanitized))
    IN IF ~IsDateFormat(sanitized)
         THEN Verdict(<< "Date must be in YYYY-MM-DD format" >>, << >>, Str(sanitized))
       ELSE IF ~dateObj.valid
         THEN Verdict(<< "Invalid date" >>, << >>, Str(sanitized))
       ELSE
         Verdict(
           When(Before(dateObj, OneYearAgo(now)),
                "Date cannot be more than one year in the past")
             \o When(Before(ThirtyDaysFromNow(now), dateObj),
                     "Date cannot be more than 30 days in the future"),
           When(GetDay(dateObj, now) \in {0, 6}, "Date falls on a weekend"),
           Str(sanitized))

(* ------------------ validators of employees and projects -------------- *)

\* s.toLowerCase()
ToLowerCase(s) ==
  [ i \in DOMAIN s |->
      IF \E k \in DOMAIN UpperCase : UpperCase[k] = s[i]
        THEN LowerCase[CHOOSE k \in DOMAIN UpperCase : UpperCase[k] = s[i]]
        ELSE s[i] ]

RECURSIVE CollapseSpaces(_)
\* s.replace(/\s+/g, ' ')
CollapseSpaces(s) ==
  IF Len(s) < 2 THEN s
  ELSE IF IsSpace(s[1]) /\ IsSpace(s[2]) THEN CollapseSpaces(Tail(s))
  ELSE << Head(s) >> \o CollapseSpaces(Tail(s))

\* every word with its first letter in upper case and the rest in lower case
ProperCase(s) ==
  [ i \in DOMAIN s |->
      IF i = 1 \/ IsSpace(s[i - 1])
        THEN ToUpperCase(<< s[i] >>)[1] ELSE ToLowerCase(<< s[i] >>)[1] ]

\* /^[a-zA-Z\s\-'\.]+$/.test(s)
IsNameText(s) ==
  /\ s # << >>
  /\ \A i \in DOMAIN s :
       \/ \E k \in DOMAIN LowerCase : s[i] \in {LowerCase[k], UpperCase[k]}
       \/ s[i] \in {" ", "-", "'", "."}

\* validateName, lines 186-217
validateName(name) ==
  IF TypeOf(name) # "string"
    THEN Verdict(<< "Name must be a string" >>, << >>, name)
    ELSE
      LET sanitized == ProperCase(CollapseSpaces(Trim(name.s))) IN
      Verdict(
        When(Len(sanitized) < 2, "Name must be at least 2 characters long")
          \o When(Len(sanitized) > 100, "Name cannot exceed 100 characters")
          \o When(~IsNameText(sanitized),
                  "Name can only contain letters, spaces, hyphens, apostrophes, and periods"),
        << >>, Str(sanitized))

validRoles ==
  { << "F", "i", "e", "l", "d", " ", "T", "e", "c", "h", "n", "i", "c", "i", "a", "n" >>,
    << "S", "e", "n", "i", "o", "r", " ", "T", "e", "c", "h", "n", "i", "c", "i", "a", "n" >>,
    << "L", "e", "a", "d", " ", "T", "e", "c", "h", "n", "i", "c", "i", "a", "n" >>,
    << "E", "l", "e", "c", "t", "r", "i", "c", "i", "a", "n" >>,
    << "S", "e", "n", "i", "o", "r", " ", "E", "l", "e", "c", "t", "r", "i", "c", "i", "a", "n" >>,
    << "M", "a", "s", "t", "e", "r", " ", "E", "l", "e", "c", "t", "r", "i", "c", "i", "a", "n" >>,
    << "C", "o", "n", "t", "r", "o", "l", "s", " ", "E", "n", "g", "i", "n", "e", "e", "r" >>,
    << "S", "e", "n", "i", "o", "r", " ", "E", "n", "g", "i", "n", "e", "e", "r" >>,
    << "P", "r", "i", "n", "c", "i", "p", "a", "l", " ", "E", "n", "g", "i", "n", "e", "e", "r" >>,
    << "P", "r", "o", "j", "e", "c", "t", " ", "M", "a", "n", "a", "g", "e", "r" >>,
    << "S", "e", "n", "i", "o", "r", " ", "P", "r", "o", "j", "e", "c", "t", " ", "M", "a", "n", "a", "g", "e", "r" >>,
    << "F", "i", "e", "l", "d", " ", "S", "u", "p", "e", "r", "v", "i", "s", "o", "r" >>,
    << "O", "p", "e", "r", "a", "t", "i", "o", "n", "s", " ", "M", "a", "n", "a", "g", "e", "r" >>,
    << "D", "i", "v", "i", "s", "i", "o", "n", " ", "M", "a", "n", "a", "g", "e", "r" >> }

\* validateRole, lines 223-252; the warning is written with its placeholder,
\* the role it names being the sanitized value of the same result
validateRole(role) ==
  IF TypeOf(role) # "string"
    THEN Verdict(<< "Role must be a string" >>, << >>, role)
    ELSE
      LET sanitized == Trim(role.s) IN
      Verdict(<< >>,
              When(sanitized \notin validRoles,
                   "Role \"${sanitized}\" is not in the standard role list"),
              Str(sanitized))

validGrades ==
  { << "T", "1" >>,
    << "T", "2" >>,
    << "T", "3" >>,
    << "T", "4" >>,
    << "E", "1" >>,
    << "E", "2" >>,
    << "E", "3" >>,
    << "E", "4" >>,
    << "S", "1" >>,
    << "S", "2" >>,
    << "M", "1" >>,
    << "M", "2" >>,
    << "M", "3" >> }

\* validatePayGrade, lines 594-615
validatePayGrade(payGrade) ==
  IF ~Falsy(payGrade) /\ TypeOf(payGrade) = "string"
    THEN
      LET sanitized == ToUpperCase(Trim(payGrade.s)) IN
      Verdict(<< >>,
              When(sanitized \notin validGrades,
                   "Pay grade \"${sanitized}\" is not in the standard grade list"),
              Str(sanitized))
    ELSE Verdict(<< >>, << >>, payGrade)

validTypes ==
  { << "T", "i", "m", "e", " ", "&", " ", "M", "a", "t", "e", "r", "i", "a", "l", "s" >>,
    << "F", "i", "x", "e", "d", " ", "B", "i", "d" >>,
    << "U", "n", "i", "t", " ", "P", "r", "i", "c", "e" >> }

\* validateContractType, lines 621-643
validateContractType(contractType) ==
  IF TypeOf(contractType) # "string"
    THEN Verdict(<< "Contract type must be a string" >>, << >>, contractType)
    ELSE
      LET sanitized == Trim(contractType.s) IN
      Verdict(
        When(sanitized \notin validTypes,
             "Invalid contract type. Must be: Time & Materials, Fixed Bid, or Unit Price"),
        << >>, Str(sanitized))

\* validateProjectName, lines 649-674
validateProjectName(name) ==
  IF TypeOf(name) # "string"
    THEN Verdict(<< "Project name must be a string" >>, << >>, name)
    ELSE
      LET sanitized == Trim(name.s) IN
      Verdict(
        When(Len(sanitized) < 3, "Project name must be at least 3 characters long")
          \o When(Len(sanitized) > 200, "Project name cannot exceed 200 characters"),
        << >>, Str(sanitized))

(* ------------------------------- validate ------------------------------ *)

\* a record handed to validate: the fields it has and their values
Obj(fields) == [t |-> "object", f |-> fields]

\* data[field]: undefined for a field the record has not
Get(fields, field) == IF field \in DOMAIN fields THEN fields[field] ELSE Undefined

\* setupValidationRules, lines 35-76: the required fields and the fields
\* with a validator, in the order the source lists them
rules ==
  [ employee |->
      [ required   |-> << "id", "name", "role", "businessUnit" >>,
        validators |-> << "id", "name", "role", "businessUnit", "payGrade" >> ],
    timesheet_entry |->
      [ required   |-> << "employeeId", "date", "businessUnit", "projectId",
                          "hoursWorked" >>,
        validators |-> << "employeeId", "date", "businessUnit", "projectId",
                          "hoursWorked", "breakHours", "workType", "costCode",
                          "description" >> ],
    project |->
      [ required   |-> << "id", "name", "businessUnit", "contractType" >>,
        validators |-> << "id", "name", "businessUnit", "contractType",
                          "startDate", "endDate" >> ] ]

\* the validator the rules of a kind give a field, applied to a value
validator(type, field, value, now) ==
  CASE field = "employeeId"   -> validateEmployeeId(value)
    [] field = "id"           -> IF type = "employee" THEN validateEmployeeId(value)
                                 ELSE validateProjectId(value)
    [] field = "name"         -> IF type = "employee" THEN validateName(value)
                                 ELSE validateProjectName(value)
    [] field = "role"         -> validateRole(value)
    [] field = "payGrade"     -> validatePayGrade(value)
    [] field = "contractType" -> validateContractType(value)
    [] field \in {"date", "startDate", "endDate"} -> validateDate(value, now)
    [] field = "businessUnit" -> validateBusinessUnitCode(value)
    [] field = "projectId"    -> validateProjectId(value)
    [] field = "hoursWorked"  -> validateHours(value)
    [] field = "breakHours"   -> validateBreakHours(value)
    [] field = "workType"     -> validateWorkType(value)
    [] field = "costCode"     -> validateCostCode(value)
    [] field = "description"  -> validateDescription(value)

\* formatFieldName, lines 680-694: the names of the map, and the field name
\* with a capital for the others
formatFieldName(fieldName) ==
  CASE fieldName = "employeeId"   -> "Employee ID"
    [] fieldName = "businessUnit" -> "Business Unit"
    [] fieldName = "projectId"    -> "Project ID"
    [] fieldName = "hoursWorked"  -> "Hours Worked"
    [] fieldName = "breakHours"   -> "Break Hours"
    [] fieldName = "workType"     -> "Work Type"
    [] fieldName = "costCode"     -> "Cost Code"
    [] fieldName = "contractType" -> "Contract Type"
    [] fieldName = "payGrade"     -> "Pay Grade"
    [] fieldName = "date"         -> "Date"
    [] fieldName = "id"           -> "Id"
    [] fieldName = "name"         -> "Name"
    [] fieldName = "role"         -> "Role"

\* validateCrossFields, lines 549-590, on the sanitized fields; the messages
\* about the project are written with their placeholder
validateCrossFields(type, fields) ==
  IF type # "timesheet_entry" THEN [errors |-> << >>, warnings |-> << >>]
  ELSE
    LET hoursWorked == OrElse(Get(fields, "hoursWorked"), Num(0)).n
        breakHours  == OrElse(Get(fields, "breakHours"), Num(0)).n
        projectId   == Get(fields, "projectId")
        date        == Get(fields, "date")
        projects    == IF ~Falsy(projectId) /\ ~Falsy(date)
                         THEN getProjectDetails(projectId) ELSE {}
        workType    == Get(fields, "workType")
    IN [ errors |->
           When(hoursWorked + breakHours > 24000,
                "Total work and break hours cannot exceed 24 hours per day")
             \o When(\E pr \in projects :
                       Before(NewDate(date), NewDate(Str(pr.startDate))),
                     "Date is before project start date (${project.startDate})"),
         warnings |->
           When(\E pr \in projects : Before(NewDate(Str(pr.endDate)), NewDate(date)),
                "Date is after project end date (${project.endDate})")
             \o When(workType.t = "string"
                       /\ workType.s = << "O", "V", "E", "R", "T", "I", "M", "E" >>
                       /\ hoursWorked <= 8000,
                     "Overtime work type selected but hours are 8 or less")
             \o When(workType.t = "string"
                       /\ workType.s = << "D", "O", "U", "B", "L", "E", "T", "I", "M", "E" >>
                       /\ hoursWorked <= 12000,
                     "Double time work type selected but hours are 12 or less") ]

\* the result validate returns when it counts the warnings as errors
AggregateWarningsCount(errors, warnings, sanitized) ==
  [ isValid |-> errors = << >> /\ warnings = << >>, errors |-> Dedupe(errors),
    warnings |-> Dedupe(warnings), sanitized |-> sanitized ]

\* the result validate returns, lines 134-139
Aggregate(errors, warnings, sanitized) ==
  [ isValid |-> errors = << >>, errors |-> Dedupe(errors),
    warnings |-> Dedupe(warnings), sanitized |-> sanitized ]

\* value === ''
IsEmptyString(value) == value.t = "string" /\ value.s = << >>

\* the test of the required fields, line 102: !value || value === ''
RequiredMissing(value) == Falsy(value) \/ IsEmptyString(value)

\* the test that lets the validator of a field run, line 109
ValidatorRuns(value) ==
  value.t # "undefined" /\ value.t # "null" /\ ~IsEmptyString(value)

\* validate(type, data), lines 84-148, run when the clock shows now
validate(type, data, now) ==
  IF type \notin DOMAIN rules
    THEN [ isValid |-> FALSE, errors |-> << "Unknown validation type: ${type}" >>,
           warnings |-> << >>, sanitized |-> data ]
  ELSE IF \/ data.t # "object"
          \/ /\ Has(rules[type].validators, "description")
             /\ ValidatorRuns(Get(data.f, "description"))
             /\ DescriptionThrows(Get(data.f, "description"))
    THEN [ isValid |-> FALSE, errors |-> << "Validation service error occurred" >>,
           warnings |-> << >>, sanitized |-> data ]
  ELSE
    LET required   == rules[type].required
        validators == rules[type].validators
        ran        == {i \in DOMAIN validators : ValidatorRuns(Get(data.f, validators[i]))}
        Crossed(errors, warnings, cross, sanitized) ==
          Aggregate(errors \o cross.errors, warnings \o cross.warnings, Obj(sanitized))
        Sanitized(errors, warnings, sanitized) ==
          Crossed(errors, warnings, validateCrossFields(type, sanitized), sanitized)
        Applied(result, applied) ==
          Sanitized(
            Flatten([ i \in DOMAIN required |->
                        When(RequiredMissing(Get(data.f, required[i])),
                             formatFieldName(required[i]) \o " is required") ])
              \o Flatten([ i \in DOMAIN validators |->
                             IF i \in ran /\ ~result[i].isValid
                               THEN result[i].errors ELSE << >> ]),
            Flatten([ i \in DOMAIN validators |->
                        IF i \in ran THEN result[i].warnings ELSE << >> ]),
            [ field \in DOMAIN data.f \cup {validators[i] : i \in applied} |->
                IF \E i \in applied : validators[i] = field
                  THEN result[CHOOSE i \in applied : validators[i] = field].sanitized
                  ELSE data.f[field] ])
        Ran(result) ==
          Applied(result, {i \in ran : result[i].sanitized.t # "undefined"})
    IN Ran([ i \in ran |->
               validator(type, validators[i], Get(data.f, validators[i]), now) ])

(* ------------------------- values handed to them ----------------------- *)

\* numbers around the limits of the two validators, in thousandths
NumberInputs ==
  { 0 - 1000, 0 - 10, 0 - 4, 0, 500, 4000, 4010, 8000, 8004, 8250, 8300, 16000,
    16250, 24000, 24004, 24006, 25000 }

\* strings that parse to a number, with white space or a tail, or do not
StringInputs ==
  { << >>, << " " >>, << "a", "b", "c" >>, << "8" >>, << " ", "8", " " >>,
    << "8", ".", "3" >>, << "8", "h" >>, << "-", "1" >>, << ".", "5" >>,
    << "2", "5" >>, << "0" >> }

\* values that are neither numbers nor strings
OtherInputs == { Undefined, JsNull, NaN, Bool(TRUE), Bool(FALSE) }

HoursInputs ==
  {Num(n) : n \in NumberInputs} \cup {Str(s) : s \in StringInputs} \cup OtherInputs

\* the marker of a field a record does not have
Absent == [t |-> "absent"]

\* a timesheet entry that passes: employee EMP001 on Monday 2024-01-15,
\* business unit 220000, project 22009017, 8 hours
ValidEntry ==
  [ employeeId   |-> Str(<< "E", "M", "P", "0", "0", "1" >>),
    date         |-> Str(<< "2", "0", "2", "4", "-", "0", "1", "-", "1", "5" >>),
    businessUnit |-> Str(<< "2", "2", "0", "0", "0", "0" >>),
    projectId    |-> Str(<< "2", "2", "0", "0", "9", "0", "1", "7" >>),
    hoursWorked  |-> Num(8000) ]

\* the values a field of a timesheet entry takes instead: left out, empty,
\* of another type, ill-formed, unknown, and at and beyond the limits
EntryValues ==
  [ employeeId   |-> { Absent, JsNull, Str(<< >>), Num(5000), Str(<< " ", "e", "m", "p", "0", "0", "1", " " >>),
                       Str(<< "E", "M", "P", "9", "9", "9" >>), Str(<< "E", "1" >>) },
    date         |-> { Absent, Str(<< >>), Num(5000), Str(<< "x" >>),
                       Str(<< "2", "0", "2", "4", "-", "1", "3", "-", "0", "1" >>), Str(<< "2", "0", "2", "0", "-", "0", "1", "-", "0", "1" >>),
                       Str(<< "2", "0", "2", "3", "-", "1", "2", "-", "3", "1" >>), Str(<< "2", "0", "2", "4", "-", "0", "1", "-", "0", "1" >>),
                       Str(<< "2", "0", "2", "4", "-", "0", "6", "-", "1", "5" >>),
                       Str(<< "2", "0", "2", "5", "-", "0", "1", "-", "0", "4" >>), Str(<< "2", "0", "2", "5", "-", "0", "6", "-", "0", "2" >>) },
    businessUnit |-> { Absent, JsNull, Num(220000000), Str(<< "2", "2" >>),
                       Str(<< "9", "9", "9", "9", "9", "9" >>) },
    projectId    |-> { Absent, Str(<< >>), Num(5000), Str(<< "P", "1" >>),
                       Str(<< "9", "9", "9", "9", "9", "9", "9", "9" >>) },
    hoursWorked  |-> { Absent, Undefined, JsNull, Str(<< >>), NaN, Bool(FALSE),
                       Bool(TRUE), Num(0), Num(20000), Num(25000), Num(0 - 1000),
                       Str(<< "8" >>), Str(<< "0" >>), Str(<< "a", "b", "c" >>) },
    breakHours   |-> { JsNull, Num(500), Num(5000), Num(0 - 1000), Str(<< "1" >>) },
    workType     |-> { Str(<< >>), Num(5000), Str(<< "r", "e", "g", "u", "l", "a", "r" >>),
                       Str(<< "O", "V", "E", "R", "T", "I", "M", "E" >>), Str(<< "D", "O", "U", "B", "L", "E", "T", "I", "M", "E" >>),
                       Str(<< "N", "I", "G", "H", "T" >>) },
    costCode     |-> { JsNull, Str(<< >>), Undefined, Num(5000), Str(<< "a", "d", "m", "i", "n" >>),
                       Str(<< "X", "X" >>) },
    description  |-> { Str(<< >>), Str(<< " " >>), Bool(FALSE), Num(5000),
                       Str(<< "a", "<", "b", ">" >>) } ]

\* the record with one field given another value, or taken out
With(fields, field, value) ==
  IF value = Absent
    THEN [f \in DOMAIN fields \ {field} |-> fields[f]]
    ELSE [f \in DOMAIN fields \cup {field} |-> IF f = field THEN value ELSE fields[f]]

\* the changes of one field
Changes == UNION { { << f, v >> : v \in EntryValues[f] } : f \in DOMAIN EntryValues }

\* the passing entry, and it with one or two fields changed
EntryRecords ==
  { With(With(ValidEntry, c[1], c[2]), d[1], d[2]) : c \in Changes, d \in Changes }
    \cup {ValidEntry}

\* employees and projects: one that passes, some that do not
EmployeeRecords ==
  { [ id |-> Str(<< "E", "M", "P", "0", "0", "1" >>), name |-> Str(<< "j", "o", "h", "n", " ", " ", "S", "M", "I", "T", "H" >>),
      role |-> Str(<< "E", "l", "e", "c", "t", "r", "i", "c", "i", "a", "n" >>), businessUnit |-> Str(<< "2", "2", "0", "0", "0", "0" >>),
      payGrade |-> Str(<< "t", "2" >>) ],
    [ id |-> Str(<< "E", "M", "P", "0", "0", "2" >>), name |-> Str(<< "J" >>),
      role |-> Str(<< "P", "i", "l", "o", "t" >>), businessUnit |-> Str(<< "2", "2", "0", "0", "0", "0" >>),
      payGrade |-> Str(<< "X", "9" >>) ],
    [ id |-> Str(<< "E", "M", "P", "0", "0", "1" >>), name |-> Num(5000), role |-> Num(0) ] }

ProjectRecords ==
  { [ id |-> Str(<< "2", "2", "0", "0", "9", "0", "1", "7" >>), name |-> Str(<< "P", "l", "a", "n", "t" >>),
      businessUnit |-> Str(<< "2", "2", "0", "0", "0", "0" >>), contractType |-> Str(<< "F", "i", "x", "e", "d", " ", "B", "i", "d" >>),
      startDate |-> Str(<< "2", "0", "2", "4", "-", "0", "6", "-", "1", "5" >>), endDate |-> Str(<< "2", "0", "2", "4", "-", "0", "6", "-", "1", "6" >>) ],
    [ id |-> Str(<< "2", "2", "0", "0", "9", "0", "1", "7" >>), name |-> Str(<< "P" >>),
      businessUnit |-> Str(<< "2", "2", "0", "0", "0", "0" >>), contractType |-> Str(<< "G", "i", "f", "t" >>),
      startDate |-> Str(<< "2", "0", "2", "0", "-", "0", "1", "-", "0", "1" >>) ],
    [ id |-> Str(<< "2", "2", "0", "0", "9", "0", "1", "7" >>), name |-> Str(<< "P", "l", "a", "n", "t" >>) ] }

\* what validate is called with: a kind, and a record or no record at all
ValidateInputs ==
  { << "timesheet_entry", Obj(fields) >> : fields \in EntryRecords }
    \cup { << "employee", Obj(fields) >> : fields \in EmployeeRecords }
    \cup { << "project", Obj(fields) >> : fields \in ProjectRecords }
    \cup { << type, data >> : type \in {"timesheet_entry", "employee", "project", "widget"},
                             data \in {JsNull, Undefined, Obj(<< >>)} }

\* the clocks validate runs by: 2024-12-20, at midnight and at noon, on the
\* hour and after it, west of, at and east of Greenwich
Clocks ==
  [ y : {2024}, m : {12}, d : {20}, h : {0, 12}, off : {0 - 5, 0, 2}, frac : BOOLEAN ]

\* validate called on a record
Validate(type, data, now) ==
  /\ last' = [ op |-> "validate", type |-> type, data |-> data, now |-> now,
               result |-> validate(type, data, now) ]
  /\ UNCHANGED << client, isInitialized, storeVars, resultFields, calls, proc >>

\* validateHours called on a value
ValidateHours(v) ==
  /\ last' = [ op |-> "validateHours", value |-> v, result |-> validateHours(v) ]
  /\ UNCHANGED << client, isInitialized, storeVars, resultFields, calls, proc >>

\* validateBreakHours called on a value
ValidateBreakHours(v) ==
  /\ last' = [ op |-> "validateBreakHours", value |-> v,
               result |-> validateBreakHours(v) ]
  /\ UNCHANGED << client, isInitialized, storeVars, resultFields, calls, proc >>

\* the dates validateDate is called with: 366 and 365 days before, on, and
\* 30 and 31 days after 2024-12-20 and 2025-06-15, a date long past, one with
\* no such month, and values that are no date
DateInputs ==
  { Str(<< "2", "0", "2", "3", "-", "1", "2", "-", "2", "0" >>),
    Str(<< "2", "0", "2", "3", "-", "1", "2", "-", "2", "1" >>),
    Str(<< "2", "0", "2", "4", "-", "1", "2", "-", "2", "0" >>),
    Str(<< "2", "0", "2", "5", "-", "0", "1", "-", "1", "9" >>),
    Str(<< "2", "0", "2", "5", "-", "0", "1", "-", "2", "0" >>),
    Str(<< "2", "0", "2", "4", "-", "0", "6", "-", "1", "4" >>),
    Str(<< "2", "0", "2", "4", "-", "0", "6", "-", "1", "5" >>),
    Str(<< "2", "0", "2", "5", "-", "0", "6", "-", "1", "5" >>),
    Str(<< "2", "0", "2", "5", "-", "0", "7", "-", "1", "5" >>),
    Str(<< "2", "0", "2", "5", "-", "0", "7", "-", "1", "6" >>),
    Str(<< "2", "0", "2", "0", "-", "0", "1", "-", "0", "1" >>),
    Str(<< "2", "0", "2", "4", "-", "1", "3", "-", "0", "1" >>),
    Str(<< "x" >>), Num(5000), JsNull }

\* the clocks validateDate runs by: a day with a 29th of February in the year
\* before it and a day without, at the start, the middle and the last hour
\* of the local day, on the hour and after it, west of, at and east of
\* Greenwich
WindowClocks ==
  { [ y |-> day[1], m |-> day[2], d |-> day[3], h |-> h, off |-> off, frac |-> frac ] :
      day \in { << 2024, 12, 20 >>, << 2025, 6, 15 >> }, h \in {0, 12, 23},
      off \in {0 - 5, 0, 2}, frac \in BOOLEAN }

\* validateDate called on a value when the clock shows now
ValidateDate(v, now) ==
  /\ last' = [ op |-> "validateDate", value |-> v, now |-> now,
               result |-> validateDate(v, now) ]
  /\ UNCHANGED << client, isInitialized, storeVars, resultFields, calls, proc >>

\* the calls of the validation service the model makes: the function called
\* and what it is called with
ValidationCalls ==
  { [op |-> "call", fn |-> fn, value |-> v] :
      fn \in {"validateHours", "validateBreakHours"}, v \in HoursInputs }
    \cup { [op |-> "call", fn |-> "validateDate", value |-> v, now |-> now] :
             v \in DateInputs, now \in WindowClocks }
    \cup { [op |-> "call", fn |-> "validate", type |-> in[1], data |-> in[2], now |-> now] :
             in \in ValidateInputs, now \in Clocks }

\* the state after construction, with a call of the validation service to make
InitValidation ==
  /\ client = "null"
  /\ isInitialized = FALSE
  /\ tables = {}
  /\ resultFields \in {"changes", "rowsAffected"}
  /\ timesheet_entries = {}
  /\ tsSeq = 0
  /\ cost_codes = {}
  /\ business_units = {}
  /\ audit_log = {}
  /\ auditSeq = 0
  /\ calls = 0
  /\ last \in ValidationCalls
  /\ proc = [c \in Callers |-> Idle]

NextValidation ==
  \/ last.op = "call" /\ last.fn = "validateHours" /\ ValidateHours(last.value)
  \/ last.op = "call" /\ last.fn = "validateBreakHours" /\ ValidateBreakHours(last.value)
  \/ last.op = "call" /\ last.fn = "validateDate" /\ ValidateDate(last.value, last.now)
  \/ last.op = "call" /\ last.fn = "validate" /\ Validate(last.type, last.data, last.now)

SpecValidation == InitValidation /\ [][NextValidation]_vars

(* ======================= properties of the audit trail ================== *)

\* the audit rows a step adds
Appended == audit_log' \ audit_log

\* a step that is an update() call which did not throw, on an existing row
UpdateSucceeded ==
  /\ last'.op = "update"
  /\ last'.returned # "threw"
  /\ \E r \in timesheet_entries : r.id = last'.id

\* C1: a successful update of an existing row appends exactly one audit
\* record, with action UPDATE, whose old snapshot is the row as stored just
\* before the update and whose new snapshot is that row overlaid with the patch
C1_UpdateAppendsOneAudit ==
  [][ UpdateSucceeded =>
        \E rec \in Appended :
          /\ audit_log' = audit_log \cup {rec}
          /\ rec.action = "UPDATE"
          /\ \A r \in timesheet_entries : r.id = last'.id =>
               /\ rec.old_values = JSONstringify(r)
               /\ rec.new_values = JSONstringify(Spread(r, last'.data)) ]_vars

\* the rows a step erases: their id is no longer stored afterwards
Erased ==
  {r \in timesheet_entries : \A n \in timesheet_entries' : n.id # r.id}

\* C2: whenever delete() removes a row, the audit log holds afterwards a
\* DELETE record for that table and id whose old snapshot is the row just
\* before deletion and whose new snapshot is null
C2_DeleteLeavesSnapshot ==
  [][ \A r \in Erased :
        \E rec \in audit_log' :
          /\ rec.action = "DELETE"
          /\ rec.table_name = "timesheet_entries"
          /\ rec.record_id = ToString(r.id)
          /\ rec.old_values = JSONstringify(r)
          /\ rec.new_values = NullSnapshot ]_vars

\* a step that is an insert() call which did not throw
InsertSucceeded == last'.op = "insert" /\ last'.returned # "threw"

\* the rows a step adds to the table insert() was called on
InsertedRows ==
  IF last'.table = "timesheet_entries"
    THEN timesheet_entries' \ timesheet_entries
    ELSE IF last'.table = "business_units"
      THEN business_units' \ business_units
      ELSE cost_codes' \ cost_codes

\* C3: every successful insert writes one row and appends exactly one audit
\* record: action INSERT, old snapshot null, new snapshot the inserted
\* record, user the given actor
C3_InsertAppendsOneAudit ==
  [][ InsertSucceeded =>
        /\ Cardinality(InsertedRows) = 1
        /\ \E rec \in Appended :
             /\ audit_log' = audit_log \cup {rec}
             /\ rec.action = "INSERT"
             /\ rec.table_name = last'.table
             /\ rec.old_values = NullSnapshot
             /\ rec.new_values = JSONstringify(last'.data)
             /\ rec.user_id = last'.userId ]_vars

\* a step in which the store ran the mutation of a call and the append of
\* its audit record failed
AuditFailedStep ==
  /\ last'.op \in {"insert", "update", "delete"}
  /\ last'.audit = "failed"

\* the mutation of the call of this step is in the store afterwards
MutationStays ==
  \/ /\ last'.op = "insert"
     /\ \E n \in InsertedRows : \A c \in DOMAIN last'.data : n[c] = last'.data[c]
  \/ /\ last'.op = "update"
     /\ \E n \in timesheet_entries' :
          n.id = last'.id /\ \A c \in DOMAIN last'.data : n[c] = last'.data[c]
  \/ /\ last'.op = "delete"
     /\ \E r \in timesheet_entries : r.id = last'.id
     /\ \A n \in timesheet_entries' : n.id # last'.id

\* C4: when the store accepts the statement of an insert, update or delete
\* and the append of the audit record fails, the call returns what it returns
\* on success (the insert id, or true), throws nothing, and the mutation
\* stays in the store
C4_AuditFailureAbsorbed ==
  [][ AuditFailedStep =>
        /\ last'.returned = (IF last'.op = "insert" THEN "insertId" ELSE "true")
        /\ MutationStays ]_vars

\* C4 witness: a delete whose audit append failed returned true and the row
\* is gone
C4_Witness ==
  /\ last.op = "delete"
  /\ last.audit = "failed"
  /\ last.returned = "true"
  /\ \A r \in timesheet_entries : r.id # last.id

(* ==================== properties of the uniqueness key ================== *)

\* the stored row r has, column for column, the key the record data would get
IdenticalTuple(r, data) == \A c \in UniqueCols : r[c] = Col(data, c)

\* a step that is an insert() of an entry whose tuple an entry already has
DuplicateInsert ==
  /\ last'.op = "insert"
  /\ last'.table = "timesheet_entries"
  /\ \E r \in timesheet_entries : IdenticalTuple(r, last'.data)

\* C5: the second insert of an entry with an identical (employeeId, date,
\* projectId, jobId, workOrderId, workType) throws, adds no row and adds no
\* audit record, whatever the tuple, absent jobId and workOrderId included
C5_DuplicateInsertRejected ==
  [][ DuplicateInsert =>
        /\ last'.returned = "threw"
        /\ timesheet_entries' = timesheet_entries
        /\ audit_log' = audit_log ]_vars

\* C6: no two stored entries share the tuple (employeeId, date, projectId,
\* jobId, workOrderId, workType)
C6_TupleUnique ==
  \A r \in timesheet_entries, s \in timesheet_entries :
    r.id # s.id => \E c \in UniqueCols : r[c] # s[c]

(* ========================= billable hours ============================== *)

\* the rows a step writes: inserted, or left by an update
Written == timesheet_entries' \ timesheet_entries

\* C10: every entry is stored with billable_hours equal to its hours_worked
\* when, at the time it is written, its cost code is a billable row of
\* cost_codes, and 0 otherwise; a record or patch that names billable_hours
\* itself is refused and writes nothing
C10_BillableHoursDerived ==
  [][ /\ \A n \in Written :
           n.billable_hours =
             (IF \E cc \in cost_codes : cc.code = n.cost_code /\ cc.billable = 1
                THEN n.hours_worked ELSE 0)
      /\ (last'.op \in {"insert", "update"} /\ "billable_hours" \in DOMAIN last'.data)
           => (Written = {} /\ last'.returned = "threw") ]_vars

\* C10 witness: an entry naming a billable cost code is stored with
\* billable_hours = hours_worked = 8
C10_Witness ==
  \E r \in timesheet_entries :
    /\ r.cost_code = "ELEC-WIRE"
    /\ r.hours_worked = 8
    /\ r.billable_hours = 8

(* ============================ daily totals ============================= *)

\* hours_worked of the entry with this id if it is of the employee and the
\* date, 0 if it is not or no such entry is stored
HoursOfId(i, employeeId, date) ==
  LET hit == {r \in timesheet_entries :
                r.id = i /\ r.employee_id = employeeId /\ r.date = date}
  IN IF hit = {} THEN 0 ELSE (CHOOSE r \in hit : TRUE).hours_worked

\* the hours of one employee on one date, added up id by id
DayHours(employeeId, date) ==
  LET acc[i \in 0 .. tsSeq] ==
        IF i = 0 THEN 0 ELSE acc[i - 1] + HoursOfId(i, employeeId, date)
  IN acc[tsSeq]

\* the last call was a calculateDailyTotals whose query ran
TotalsRan == last.op = "calculateDailyTotals" /\ last.ran

\* C8: calculateDailyTotals(employeeId, date) returns the sum of
\* hours_worked over exactly that employee's entries of that date, with
\* regular = min(total, 8), overtime = min(max(total - 8, 0), 4) and
\* doubletime = max(0, total - 12): 10 hours give 8/2/0, 13 hours give 8/4/1
C8_DailyTotals ==
  TotalsRan =>
    LET total == DayHours(last.employeeId, last.date)
        res   == last.result
    IN /\ res.total_hours = total
       /\ res.regular_hours = Min(total, 8)
       /\ res.overtime_hours = Min(Max(total - 8, 0), 4)
       /\ res.doubletime_hours = Max(0, total - 12)
       /\ total = 10 =>
            res.regular_hours = 8 /\ res.overtime_hours = 2 /\ res.doubletime_hours = 0
       /\ total = 13 =>
            res.regular_hours = 8 /\ res.overtime_hours = 4 /\ res.doubletime_hours = 1

\* C8 witness: totals were computed for a day whose two entries add up to
\* 13 hours
C8_Witness ==
  /\ TotalsRan
  /\ last.result.total_hours = 13
  /\ last.result.entry_count = 2

\* the stored entries with their work types replaced by those of tag
Retagged(tag) == {[r EXCEPT !.work_type = tag[r.id]] : r \in timesheet_entries}

\* the premium tiers of a totals record
Tiers(res) == << res.regular_hours, res.overtime_hours, res.doubletime_hours >>

\* C9: the tiers calculateDailyTotals returns are those it returns on any
\* store that holds the same entries with the same hours_worked under other
\* work type tags
C9_TiersIgnoreWorkType ==
  TotalsRan =>
    \A tag \in [1 .. tsSeq -> {"REGULAR", "OVERTIME"}] :
      Tiers(DailyTotalsOf(Retagged(tag), last.employeeId, last.date))
        = Tiers(last.result)

\* C9 witness: totals were computed over a day that holds entries of both
\* work types
C9_Witness ==
  /\ TotalsRan
  /\ \E r \in timesheet_entries, s \in timesheet_entries :
       /\ r.employee_id = last.employeeId /\ r.date = last.date
       /\ s.employee_id = last.employeeId /\ s.date = last.date
       /\ r.work_type = "REGULAR" /\ s.work_type = "OVERTIME"

(* ========================= concurrent inserts ========================== *)

\* two callers have each finished an insert of an entry with the same
\* tuple, the two calls overlapped in time, and both statements were run by
\* the store of an initialized service
RacedSameTuple(a, b) ==
  /\ a # b
  /\ proc[a].pc = "done" /\ proc[b].pc = "done"
  /\ proc[a].overlapped /\ proc[b].overlapped
  /\ proc[a].ran /\ proc[b].ran
  /\ \A c \in UniqueCols : Col(proc[a].data, c) = Col(proc[b].data, c)

\* C7: of two concurrent inserts of entries with the same tuple exactly one
\* succeeds and the other throws; the store ends with one such entry and the
\* audit log with one INSERT record for it
C7_OneConcurrentInsertWins ==
  \A a \in Callers, b \in Callers :
    RacedSameTuple(a, b) =>
      /\ Cardinality({c \in {a, b} : proc[c].returned = "threw"}) = 1
      /\ Cardinality({r \in timesheet_entries : IdenticalTuple(r, proc[a].data)}) = 1
      /\ Cardinality({rec \in audit_log :
                        /\ rec.action = "INSERT"
                        /\ rec.table_name = "timesheet_entries"
                        /\ \E r \in timesheet_entries :
                             /\ IdenticalTuple(r, proc[a].data)
                             /\ rec.record_id = ToString(r.id)}) = 1

(* ======================== failures of reads and writes ================= *)

ReadOps == {"getAll", "getTimesheetEntries", "calculateDailyTotals", "getById"}

\* C11: getAll, getTimesheetEntries, calculateDailyTotals and getById never
\* throw, whether the service is uninitialized, closed or its store fails:
\* when the statement did not run the call returns the empty collection,
\* null, or the default totals record
C11_ReadsNeverThrow ==
  [][ last'.op \in ReadOps =>
        /\ ~last'.threw
        /\ ~last'.ran =>
             CASE last'.op = "getById" -> last'.result = NullSnapshot
               [] last'.op = "calculateDailyTotals" -> last'.result = DefaultTotals
               [] OTHER -> last'.result = {} ]_vars

\* C11 witness: getAll on a closed service that holds entries returned the
\* empty collection
C11_Witness ==
  /\ last.op = "getAll"
  /\ ~last.ran
  /\ ~last.threw
  /\ last.result = {}
  /\ client = "closed"
  /\ timesheet_entries # {}

\* a step that is an insert, update or delete whose statement failed: the
\* service was not initialized, or the store refused or failed the statement
WriteFailed ==
  /\ last'.op \in {"insert", "update", "delete"}
  /\ ~last'.accepted \/ ~isInitialized \/ client # "open"

\* C12: when the statement of an insert, update or delete fails, the call
\* throws and the stored rows are as before: nothing is written, and the
\* statement is not sent again
C12_WriteFailurePropagates ==
  [][ WriteFailed =>
        /\ last'.returned = "threw"
        /\ timesheet_entries' = timesheet_entries
        /\ cost_codes' = cost_codes
        /\ business_units' = business_units
        /\ audit_log' = audit_log ]_vars

\* C12 witness: an insert that the store would accept threw on an
\* initialized service, the failure being the store's own, and its row is
\* not stored
C12_Witness ==
  /\ last.op = "insert"
  /\ last.table = "timesheet_entries"
  /\ last.returned = "threw"
  /\ isInitialized
  /\ client = "open"
  /\ TsInsertAccepted(last.data)

\* a step in which a statement that creates no schema is handed to execute
\* while the service is not initialized
UninitializedStatement ==
  /\ last'.op \in {"execute", "getAll"}
  /\ ~isInitialized
  /\ last'.sql[1] # "CREATE"

\* C13: while the service is not initialized (before initialize() has
\* completed, or after close()), execute fails for every statement that does
\* not create schema, and the statement does not reach the store
C13_UninitializedRefuses ==
  [][ UninitializedStatement => (~last'.ran /\ ~last'.reached) ]_vars

(* ================= schema creation and reference seeding =============== *)

\* a step that is a createTables() call made when every table and index
\* already exists, on an open client, with no statement failed by the store
SecondCreateTables ==
  /\ last'.op = "createTables"
  /\ tables = Schema
  /\ client = "open"
  /\ ~last'.storeFailed

\* C14: createTables called again once the schema exists raises no error and
\* leaves the tables, the indexes and every stored row as they were
C14_CreateTablesIdempotent ==
  [][ SecondCreateTables => (last'.returned = "undefined" /\ storeVars' = storeVars) ]_vars

\* C14 witness: createTables has returned without error on an initialized
\* service that already holds a reference row
C14_Witness ==
  /\ last.op = "createTables"
  /\ last.returned = "undefined"
  /\ isInitialized
  /\ tables = Schema
  /\ cost_codes # {}

\* the rows of a reference table
RowsOf(table) == IF table = "business_units" THEN business_units ELSE cost_codes

\* a step that is a seedInitialData() call on an initialized service with an
\* open client in which the store failed no statement on its own
SeedStep ==
  /\ last'.op = "seedInitialData"
  /\ isInitialized
  /\ client = "open"
  /\ last'.storeFailed = {}

\* C15: after seeding, once or again, every reference row is there exactly
\* once under its primary key, and a row that was there before under that
\* key has kept every field
C15_SeedInsertOrIgnore ==
  [][ SeedStep =>
        \A i \in 1 .. Len(SeedRows) :
          LET t == SeedRows[i].table
              k == SeedRows[i].data.code
          IN /\ Cardinality({r \in RowsOf(t)' : r.code = k}) = 1
             /\ \A r \in RowsOf(t) : r.code = k => r \in RowsOf(t)' ]_vars

\* a step in which seeding ran and the statement of some reference row failed
SeedRowFailed ==
  /\ last'.op \in {"seedInitialData", "initialize"}
  /\ last'.failed # {}

\* C16: when the statement of a reference row fails during seeding, every
\* reference row is still attempted and the call does not throw:
\* seedInitialData returns, initialize returns true
C16_SeedFailureAbsorbed ==
  [][ SeedRowFailed =>
        /\ last'.attempted = 1 .. Len(SeedRows)
        /\ last'.returned = (IF last'.op = "initialize" THEN "true" ELSE "undefined") ]_vars

\* C16 witness: seeding went on after the store failed the statement of the
\* cost code ELEC-WIRE, and the cost code after it is stored
C16_Witness ==
  /\ last.op = "seedInitialData"
  /\ 2 \in last.storeFailed
  /\ 3 \in last.attempted
  /\ \E cc \in cost_codes : cc.code = "ADMIN"
  /\ \A cc \in cost_codes : cc.code # "ELEC-WIRE"

(* ========================== hours validators =========================== *)

\* m is a member of the list

\* the value is within half a hundredth of a whole number of hundredths
RoundedFrom(sanitized, n) ==
  /\ sanitized % 10 = 0
  /\ sanitized - n <= 5
  /\ n - sanitized < 5

\* what the claim says of validateHours for a number n (in thousandths)
HoursResultFor(res, n) ==
  /\ res.sanitized.t = "number"
  /\ RoundedFrom(res.sanitized.n, n)
  /\ LET h == res.sanitized.n IN
       /\ res.isValid <=> ~(h < 0 \/ h > 24000)
       /\ res.isValid <=> res.errors = << >>
       /\ Has(res.warnings, "Unusually high hours - please verify") <=> h > 16000
       /\ Has(res.warnings, "Hours should be in 15-minute increments (0.25)")
            <=> h % 250 # 0
       /\ Len(res.warnings) = (IF h > 16000 THEN 1 ELSE 0) + (IF h % 250 # 0 THEN 1 ELSE 0)

\* C19: validateHours turns its input into a number rounded to two decimals;
\* it reports an error exactly when that number is negative or above 24, or
\* when the input is not a number; it warns above 16, and warns when the
\* number is not a multiple of 0.25; 8.3 is valid, sanitized 8.3, with the
\* warning about 15-minute increments
C19_HoursValidator ==
  [][ last'.op = "validateHours" =>
        LET v == last'.value
            res == last'.result
        IN /\ v.t = "number" => HoursResultFor(res, v.n)
           /\ v = Str(<< "8", ".", "3" >>) => HoursResultFor(res, 8300)
           /\ v = Str(<< " ", "8", " " >>) => HoursResultFor(res, 8000)
           /\ v = Str(<< "-", "1" >>) => HoursResultFor(res, 0 - 1000)
           /\ v \in OtherInputs \cup {Str(<< "a", "b", "c" >>), Str(<< >>)} =>
                (~res.isValid /\ res.errors # << >>)
           /\ v \in {Num(8300), Str(<< "8", ".", "3" >>)} =>
                /\ res.isValid
                /\ res.sanitized = Num(8300)
                /\ res.warnings = << "Hours should be in 15-minute increments (0.25)" >> ]_vars

\* C19 witness: validateHours has accepted 8.3 with the increment warning
C19_Witness ==
  /\ last.op = "validateHours"
  /\ last.value = Num(8300)
  /\ last.result.isValid
  /\ last.result.sanitized = Num(8300)
  /\ Len(last.result.warnings) = 1

\* input of validateBreakHours that is not numeric: no number, and no string
\* that parses to one
NonNumeric(v) ==
  v \in OtherInputs \cup {Str(<< >>), Str(<< " " >>), Str(<< "a", "b", "c" >>)}

\* input of validateBreakHours that is negative
NegativeInput(v) ==
  \/ v.t = "number" /\ v.n < 0
  \/ v = Str(<< "-", "1" >>)

\* the result of a validator that reports the field valid with the value 0
ValidZero(res) == res.isValid /\ res.errors = << >> /\ res.sanitized = Num(0)

RECURSIVE Text(_)
\* the string a sequence of characters spells
Text(chars) == IF chars = << >> THEN "" ELSE Head(chars) \o Text(Tail(chars))

\* the value insert() binds for a value of the record: Object.values(data)
\* handed to the store as they are; a number of whole hours is written in
\* hours, as the rows of the store carry it
SqlValue(v) ==
  CASE v.t = "string"  -> Text(v.s)
    [] v.t = "number"  -> v.n \div 1000
    [] v.t = "boolean" -> IF v.b THEN 1 ELSE 0
    [] OTHER           -> Null

\* the record insert() is called with when the caller hands it the sanitized
\* record of validate: its keys name the columns, Object.keys(data)
SanitizedRecord(fields) == [k \in DOMAIN fields |-> SqlValue(fields[k])]

\* the entry of the end-to-end scenario, for project P1 and for project
\* 22009017 of the reference data
EndToEndEntry(projectId) ==
  [ employeeId   |-> Str(<< "E", "M", "P", "0", "0", "1" >>),
    date         |-> Str(<< "2", "0", "2", "4", "-", "0", "1", "-", "1", "5" >>),
    businessUnit |-> Str(<< "2", "2", "0", "0", "0", "0" >>),
    projectId    |-> Str(projectId),
    hoursWorked  |-> Num(8000),
    workType     |-> Str(<< "R", "E", "G", "U", "L", "A", "R" >>) ]

EndToEndEntries ==
  { EndToEndEntry(p) : p \in { << "P", "1" >>, << "2", "2", "0", "0", "9", "0", "1", "7" >> } }

\* the clocks of the scenario: noon UTC on 2024-12-20 and on 2025-06-15
EndToEndClocks == { c \in WindowClocks : c.h = 12 /\ c.off = 0 /\ ~c.frac }

\* the caller of the data flow: a record validate found valid is passed, as
\* sanitized, to insert()
InsertSanitized(userId) ==
  /\ last.op = "validate" /\ last.type = "timesheet_entry"
  /\ last.result.isValid
  /\ Insert("timesheet_entries", SanitizedRecord(last.result.sanitized.f), userId)

NextEndToEnd ==
  \/ Initialize
  \/ \E d \in EndToEndEntries, now \in EndToEndClocks :
       Validate("timesheet_entry", Obj(d), now)
  \/ \E u \in Users : InsertSanitized(u)
  \/ \E f \in ListFilters : GetTimesheetEntries(f)

SpecEndToEnd == Init /\ [][NextEndToEnd]_vars

(* --------------- validated entries stored under a day ------------------ *)

\* the column of timesheet_entries that holds a field of the entry, for the
\* columns the model carries
ColumnFields ==
  [ employee_id |-> "employeeId", date |-> "date", project_id |-> "projectId",
    hours_worked |-> "hoursWorked", work_type |-> "workType" ]

\* the row a caller writes for a validated entry: the sanitized values under
\* the column names of the table
EntryRow(fields) ==
  [c \in {x \in DOMAIN ColumnFields : ColumnFields[x] \in DOMAIN fields} |->
     SqlValue(fields[ColumnFields[c]])]

\* entries of EMP001 on 2024-01-15: two projects, 8, 16 or 25 hours
DayInputs ==
  { [EndToEndEntry(p) EXCEPT !.hoursWorked = Num(h)] :
      p \in { << "2", "2", "0", "0", "9", "0", "1", "7" >>, << "2", "2", "0", "0", "9", "0", "1", "8" >> },
      h \in {8000, 16000, 25000} }

\* the clock of these calls: noon UTC on 2024-12-20
DayClocks == { c \in EndToEndClocks : c.y = 2024 }

\* an entry is validated and, having passed, inserted
InsertValidated(data, now, userId) ==
  LET result == validate("timesheet_entry", Obj(data), now) IN
  /\ result.isValid
  /\ Insert("timesheet_entries", EntryRow(result.sanitized.f), userId)

NextDay ==
  \/ Initialize
  \/ \E d \in DayInputs, now \in DayClocks, u \in Users : InsertValidated(d, now, u)
  \/ \E e \in Employees, d \in Dates : CalculateDailyTotals(e, d)

SpecDay == Init /\ [][NextDay]_vars

(* ===================== properties of validate ========================== *)

\* C17: for every kind and every record, validate returns isValid = true if
\* and only if the error list it returns is empty, on each of its three ways
\* out (unknown kind, the aggregate, the caught exception); warnings, however
\* many, do not enter into isValid
C17_ValidIffNoErrors ==
  [][ last'.op = "validate" =>
        (last'.result.isValid <=> last'.result.errors = << >>) ]_vars

\* C17 witness: validate has returned a valid result that carries warnings
C17_Witness ==
  /\ last.op = "validate"
  /\ last.result.isValid
  /\ last.result.errors = << >>
  /\ Len(last.result.warnings) >= 2

\* the value of a required field of the record validate was called with
Given(field) == Get(last'.data.f, field)

\* undefined, null or the empty string
MissingOrEmpty(value) == value.t \in {"undefined", "null"} \/ IsEmptyString(value)

\* C18 as claimed: validate reports '<Field> is required' for a required
\* field exactly when the field is missing or empty (undefined, null or the
\* empty string); a timesheet entry without hoursWorked is invalid with
\* 'Hours Worked is required', and hoursWorked = 0 is not reported missing
\* (said of the calls that return the errors they gathered, not of those that
\* end in the caught exception)
C18_RequiredIffMissing ==
  [][ (/\ last'.op = "validate" /\ last'.type \in DOMAIN rules
       /\ last'.data.t = "object"
       /\ last'.result.errors # << "Validation service error occurred" >>) =>
        LET required == rules[last'.type].required
            res      == last'.result
        IN /\ \A i \in DOMAIN required :
                Has(res.errors, formatFieldName(required[i]) \o " is required")
                  <=> MissingOrEmpty(Given(required[i]))
           /\ (last'.type = "timesheet_entry"
                 /\ MissingOrEmpty(Given("hoursWorked"))) =>
                (~res.isValid /\ Has(res.errors, "Hours Worked is required"))
           /\ (last'.type = "timesheet_entry" /\ Given("hoursWorked").t = "number"
                 /\ Given("hoursWorked").n = 0) =>
                ~Has(res.errors, "Hours Worked is required") ]_vars

(* ================== properties of the date validator =================== *)

\* the whole days from the date to the current date of the clock (its local
\* day): positive for a date in the past
DaysBack(date, now) ==
  DaysFromCivil(now.y, now.m, now.d) - NewDate(date).h \div 24

\* the result carries one of the two errors of the business window
WindowError(res) ==
  \/ Has(res.errors, "Date cannot be more than one year in the past")
  \/ Has(res.errors, "Date cannot be more than 30 days in the future")

\* C21 as claimed: the date validator enforces the business window by whole
\* days from the current date: a well-formed date gets a window error exactly
\* when it lies more than 365 days in the past or more than 30 days in the
\* future, so 366 days back is an error, 365 days back is not, 30 days ahead
\* is not and 31 days ahead is, at any time of day the validator runs
C21_WindowByWholeDays ==
  [][ (/\ last'.op = "validateDate"
       /\ last'.value.t = "string"
       /\ NewDate(last'.value).valid) =>
        LET back == DaysBack(last'.value, last'.now) IN
        WindowError(last'.result) <=> (back > 365 \/ back < 0 - 30) ]_vars

(* ================ properties of the cross-field checks ================= *)

\* a call of validate on a timesheet entry that returned what it gathered,
\* with a well-formed date and a project id that resolves
ProjectResolved ==
  /\ last'.op = "validate" /\ last'.type = "timesheet_entry"
  /\ last'.data.t = "object"
  /\ last'.result.errors # << "Validation service error occurred" >>
  /\ Get(last'.data.f, "date").t = "string"
  /\ NewDate(Get(last'.data.f, "date")).valid
  /\ getProjectDetails(Get(last'.result.sanitized.f, "projectId")) # {}

StartError == "Date is before project start date (${project.startDate})"
EndWarning == "Date is after project end date (${project.endDate})"

\* C22: for a timesheet entry whose projectId resolves to a project, an entry
\* date before the project's start date adds an error and the record is
\* invalid; an entry date after its end date adds a warning and no error of
\* the project; a date inside the window, its first day included, adds
\* neither
C22_ProjectWindow ==
  [][ ProjectResolved =>
        LET res   == last'.result
            day   == NewDate(Get(last'.data.f, "date")).h
            pr    == CHOOSE pr \in getProjectDetails(Get(res.sanitized.f, "projectId")) : TRUE
            start == NewDate(Str(pr.startDate)).h
            end   == NewDate(Str(pr.endDate)).h
        IN /\ ~Has(res.errors, EndWarning) /\ ~Has(res.warnings, StartError)
           /\ day < start => (Has(res.errors, StartError) /\ ~res.isValid
                                /\ ~Has(res.warnings, EndWarning))
           /\ day > end => (Has(res.warnings, EndWarning) /\ ~Has(res.errors, StartError))
           /\ (day >= start /\ day <= end) =>
                (~Has(res.errors, StartError) /\ ~Has(res.warnings, EndWarning)) ]_vars

\* C22 witness: validate has returned a valid record that carries the warning
\* of a date after the project's end
C22_Witness ==
  /\ last.op = "validate"
  /\ last.result.isValid
  /\ Has(last.result.warnings, EndWarning)

\* C23 as claimed: the cost code is optional: validating a timesheet entry
\* whose costCode is absent (undefined, null or the empty string) adds no
\* error about the cost code, and the sanitized record validate returns
\* carries costCode = null (said of the calls that return what they gathered)
C23_CostCodeOptional ==
  [][ (/\ last'.op = "validate" /\ last'.type = "timesheet_entry"
       /\ last'.data.t = "object"
       /\ last'.result.errors # << "Validation service error occurred" >>
       /\ MissingOrEmpty(Get(last'.data.f, "costCode"))) =>
        /\ ~Has(last'.result.errors, "Cost code not found in system")
        /\ Get(last'.result.sanitized.f, "costCode").t = "null" ]_vars

(* ===================== validation to persistence ======================= *)

\* validate has been called on the entry of the scenario for project P1
ScenarioValidated ==
  /\ last'.op = "validate"
  /\ last'.data = Obj(EndToEndEntry(<< "P", "1" >>))

\* validate found an entry valid on a store that would take a row of 8 hours
\* for EMP001 on 2024-01-15 if the statement runs
ScenarioInsertable ==
  /\ last.op = "validate" /\ last.type = "timesheet_entry"
  /\ last.result.isValid
  /\ InsertAccepted("timesheet_entries", BaseEntry("EMP001", "2024-01-15", 8), FALSE)

\* C24 as claimed: validating {employeeId EMP001, date 2024-01-15,
\* businessUnit 220000, projectId P1, hoursWorked 8, workType REGULAR} returns
\* isValid = true with no error; inserting the sanitized record validate
\* returned succeeds and stores one row of 8 hours for EMP001, the row that
\* getTimesheetEntries({employeeId: EMP001}) then returns
C24_EndToEnd ==
  [][ /\ ScenarioValidated =>
           (last'.result.isValid /\ last'.result.errors = << >>)
      /\ ScenarioInsertable =>
           InsertAccepted("timesheet_entries",
                          SanitizedRecord(last.result.sanitized.f), FALSE)
      /\ (last.op = "validate" /\ last'.op = "insert" /\ last'.accepted) =>
           \E r \in timesheet_entries' \ timesheet_entries :
              r.employee_id = "EMP001" /\ r.hours_worked = 8
      /\ (/\ last'.op = "getTimesheetEntries" /\ last'.ran
          /\ last'.filters = [employeeId |-> "EMP001"]
          /\ tsSeq = 1) =>
           /\ Cardinality(last'.result) = 1
           /\ \A r \in last'.result : r.hours_worked = 8 ]_vars

(* ========================= the audit trail ============================= *)

\* C25 as claimed: the audit log is append-only; no insert, update or delete
\* call, with any table name and id, modifies or removes an audit record
\* once written, so every audit record of a state is still there after
\* every step
C25_AuditAppendOnly == [][audit_log \subseteq audit_log']_vars

(* ======================= seeding at start-up =========================== *)

\* the step is an initialize() that returns true on a service that was not
\* initialized and whose reference tables are empty
FirstInitialize ==
  /\ ~isInitialized /\ cost_codes = {} /\ business_units = {}
  /\ last'.op = "initialize" /\ last'.returned = "true"

\* C26 as claimed: after initialize() returns successfully on an empty
\* store every row of the reference dataset is present in its table, each
\* seeding statement having been executed by the store during initialize
C26_SeededAfterInitialize ==
  [][ FirstInitialize =>
        \A i \in DOMAIN SeedRows :
          /\ i \notin last'.failed
          /\ SeedRows[i].table = "cost_codes" =>
               \E r \in cost_codes' : r.code = SeedRows[i].data.code
          /\ SeedRows[i].table = "business_units" =>
               \E r \in business_units' : r.code = SeedRows[i].data.code ]_vars

(* ======================= interleaved updates =========================== *)

\* caller c's update appends its audit record in this step, its pre-read
\* having run
UpdateAudited(c) ==
  /\ proc[c].pc = "logAudit" /\ proc[c].op = "update"
  /\ proc[c].readRan
  /\ audit_log' # audit_log

\* C27 as claimed: when update calls on one row interleave, every UPDATE
\* audit record's old snapshot equals the row immediately before that
\* call's own write and its new snapshot equals the row immediately after it
C27_AuditSnapshotsUnderInterleaving ==
  [][ \A c \in Callers :
        UpdateAudited(c) =>
          \A r \in audit_log' \ audit_log :
            /\ r.old_values = proc[c].before
            /\ r.new_values = proc[c].after ]_vars

(* =================== audit records and mutations ======================= *)

\* the step is a call of one of the write paths
Mutation == last'.op \in {"insert", "update", "delete"}

\* the call of the step changed a row: its statement was accepted and, for
\* an update or a delete, its id matched a row
ChangedARow ==
  /\ Mutation
  /\ last'.accepted
  /\ last'.op \in {"update", "delete"} => last'.matched > 0

\* C28: an audit record is written only for a mutation that changed a row:
\* a step appends at most one audit record, and appends none unless it is an
\* insert, update or delete whose statement the store accepted and, for an
\* update or delete, whose id matched a row; a call that throws or returns
\* false appends none. Hence the audit records never outnumber the
\* successful row-changing mutations
C28_AuditOnlyForChanges ==
  [][ LET added == audit_log' \ audit_log IN
        /\ Cardinality(added) <= 1
        /\ added # {} => ChangedARow
        /\ (Mutation /\ last'.returned \in {"threw", "false"}) => added = {} ]_vars

\* an update whose id matched no row has returned false on a store that
\* reports changes, the audit trail holding the one record of the insert
C28_Witness ==
  /\ resultFields = "changes"
  /\ last.op = "update" /\ last.accepted /\ last.matched = 0
  /\ last.returned = "false"
  /\ Cardinality(audit_log) = 1

(* ====================== premium tiers of a day ========================= *)

\* a result of calculateDailyTotals carries the three tiers, non-negative,
\* capped at 8 and 4, and adding up to its total
TiersPartitionTotal(result) ==
  /\ {"regular_hours", "overtime_hours", "doubletime_hours"} \subseteq DOMAIN result
  /\ result.regular_hours >= 0 /\ result.regular_hours <= 8
  /\ result.overtime_hours >= 0 /\ result.overtime_hours <= 4
  /\ result.doubletime_hours >= 0
  /\ result.regular_hours + result.overtime_hours + result.doubletime_hours
       = result.total_hours

\* C29 as claimed: every result of calculateDailyTotals, on every return
\* path, the day without entries and the failed query included, carries
\* regular, overtime and doubletime hours that are non-negative, at most 8
\* and 4 for the first two, and sum exactly to the reported total
C29_TiersOnEveryPath ==
  last.op = "calculateDailyTotals" => TiersPartitionTotal(last.result)

====
